---- MODULE Spec2Model ----
(***************************************************************************)
(* A model of ExpertFieldLLM (src/AdvancedOpenSourceLLM.py): the lexicon   *)
(* store word_db, the relationship graph word_relationships, the pattern   *)
(* index pattern_relationships, prediction and sentence generation.        *)
(*                                                                         *)
(* Numbers.  Every Python float of the program is modelled by the exact    *)
(* rational <<n, d>> (d > 0, lowest terms), so that equal values are equal *)
(* tuples.  Words and tokens are sequences of one-character strings, so    *)
(* that prefixes, lower-casing and capitalisation are computed.            *)
(*                                                                         *)
(* Dictionaries.  A Python dict whose iteration order the program depends  *)
(* on is a sequence of [k |-> key, v |-> value] in insertion order.  The   *)
(* defaultdict containers create a key when it is read with d[k]; the      *)
(* operators below create it too.                                          *)
(***************************************************************************)
EXTENDS Integers, Sequences, FiniteSets, TLC

VARIABLES
    word_db,                \* self.word_db: ordered dict word -> entry
    word_relationships,     \* self.word_relationships: word -> ordered dict word -> weight
    pattern_relationships,  \* self.pattern_relationships: word -> bucket -> ...
    grammar_rules,          \* self.grammar_rules
    mode,                   \* self.mode
    operation_mode,         \* self.operation_mode
    min_words,              \* self.min_words
    max_words,              \* self.max_words
    current_tone,           \* self.current_tone
    pc,                     \* position of the engine: "importing", "ready"
    nlines,                 \* number of feed lines read so far
    ncalls,                 \* number of prediction calls made so far
    nanalyses,              \* number of analysis calls made so far
    last_line,              \* the feed line read by the last import step
    call,                   \* the last call made on the constructed engine and its arguments
    pre_db,                 \* word_db before the last step
    pre_relationships,      \* word_relationships before the last step
    pre_patterns,           \* pattern_relationships before the last step
    ret                     \* what the last call returned (or raised)

vars == <<word_db, word_relationships, pattern_relationships, grammar_rules, mode,
          operation_mode, min_words, max_words, current_tone, pc, nlines, ncalls,
          nanalyses, last_line, call, pre_db, pre_relationships, pre_patterns, ret>>

-----------------------------------------------------------------------------
(* Evaluation order *)

\* the value of e, with v computed first: the loops below hand their
\* accumulators on computed, as the program does, and not as pending expressions
Strict(v, e) == IF v = v THEN e ELSE e

-----------------------------------------------------------------------------
(* Exact rationals *)

RECURSIVE GCD(_, _)
GCD(a, b) == IF b = 0 THEN a ELSE GCD(b, a % b)

Abs(x) == IF x < 0 THEN -x ELSE x

Rat(n, d) == LET g == GCD(Abs(n), d) IN <<n \div g, d \div g>>

Zero == <<0, 1>>

\* sums, products and comparisons divide out common factors before they
\* multiply, which keeps the intermediate integers small
RAdd(x, y) ==
    LET g == GCD(x[2], y[2])
    IN  Rat(x[1] * (y[2] \div g) + y[1] * (x[2] \div g), (x[2] \div g) * y[2])

RNeg(x) == <<-x[1], x[2]>>

RMul(x, y) ==
    LET g1 == GCD(Abs(x[1]), y[2])
        g2 == GCD(Abs(y[1]), x[2])
    IN  Rat((x[1] \div g1) * (y[1] \div g2), (x[2] \div g2) * (y[2] \div g1))

RLt(x, y) ==
    LET g == GCD(x[2], y[2]) IN x[1] * (y[2] \div g) < y[1] * (x[2] \div g)

RLe(x, y) ==
    LET g == GCD(x[2], y[2]) IN x[1] * (y[2] \div g) <= y[1] * (x[2] \div g)

RPos(x) == x[1] > 0

RAbs(x) == <<Abs(x[1]), x[2]>>

RMin(x, y) == IF RLe(x, y) THEN x ELSE y

RMax(x, y) == IF RLe(x, y) THEN y ELSE x

-----------------------------------------------------------------------------
(* Characters and words *)

\* str.lower() on the letters of the model's alphabet
Letters ==
    <<"a", "b", "c", "d", "e", "f", "g", "h", "i", "j", "k", "l", "m",
      "n", "o", "p", "q", "r", "s", "t", "u", "v", "w", "x", "y", "z">>

Capitals ==
    <<"A", "B", "C", "D", "E", "F", "G", "H", "I", "J", "K", "L", "M",
      "N", "O", "P", "Q", "R", "S", "T", "U", "V", "W", "X", "Y", "Z">>

\* the position of a character in a sequence of characters, 0 when absent
CharIndex(chars, c) ==
    IF \E i \in 1..Len(chars) : chars[i] = c
    THEN CHOOSE i \in 1..Len(chars) : chars[i] = c ELSE 0

LowerChar(c) == IF CharIndex(Capitals, c) > 0 THEN Letters[CharIndex(Capitals, c)] ELSE c

UpperChar(c) == IF CharIndex(Letters, c) > 0 THEN Capitals[CharIndex(Letters, c)] ELSE c

ToLower(w) == [i \in 1..Len(w) |-> LowerChar(w[i])]

\* word[:i]
Prefix(w, i) == SubSeq(w, 1, i)

\* string.punctuation ("grave" stands for the grave accent U+0060)
StringPunctuation ==
    {"!", "\"", "#", "$", "%", "&", "'", "(", ")", "*", "+", ",", "-", ".", "/", ":",
     ";", "<", "=", ">", "?", "@", "[", "\\", "]", "^", "_", "grave", "{", "|", "}", "~"}

\* w in string.punctuation, for a regex token w: a substring test, true of a
\* token only when it is one punctuation character
InPunctuation(w) == Len(w) = 1 /\ w[1] \in StringPunctuation

-----------------------------------------------------------------------------
(* Ordered dictionaries *)

DHas(d, k) == \E i \in 1..Len(d) : d[i].k = k

DIdx(d, k) == CHOOSE i \in 1..Len(d) : d[i].k = k

DGet(d, k) == d[DIdx(d, k)].v

DPut(d, k, v) ==
    IF DHas(d, k) THEN [d EXCEPT ![DIdx(d, k)] = [k |-> k, v |-> v]]
    ELSE Append(d, [k |-> k, v |-> v])

DKeys(d) == [i \in 1..Len(d) |-> d[i].k]

KeySet(d) == {d[i].k : i \in 1..Len(d)}

Range(s) == {s[i] : i \in 1..Len(s)}

\* the empty defaultdict
NoKeys == [x \in {} |-> <<>>]

\* d[a] of a defaultdict(lambda: defaultdict(float)) without creating it
Inner(rel, a) == IF a \in DOMAIN rel THEN rel[a] ELSE <<>>

\* the weight a read finds: 0.0 when the key is missing
Weight(rel, a, b) == IF DHas(Inner(rel, a), b) THEN DGet(Inner(rel, a), b) ELSE Zero

\* whether an edge is stored
HasEdge(rel, a, b) == DHas(Inner(rel, a), b)

\* self.word_relationships[a][b] += delta  (creates both keys)
RelAdd(rel, a, b, delta) ==
    LET inner == DPut(Inner(rel, a), b, RAdd(Weight(rel, a, b), delta))
    IN  [x \in (DOMAIN rel) \cup {a} |-> IF x = a THEN inner ELSE rel[x]]

\* self.word_relationships[a]  (creates the outer key)
RelTouch(rel, a) == [x \in (DOMAIN rel) \cup {a} |-> IF x = a THEN Inner(rel, a) ELSE rel[x]]

\* a read self.word_relationships[a][b]: the state it leaves
RelRead(rel, a, b) == RelAdd(rel, a, b, Zero)

-----------------------------------------------------------------------------
(* Configuration: the files _ensure_files_exist writes *)

\* an empty JSON object / Python dict
EmptyDict == [x \in {} |-> Zero]

\* grammar_flow_formal.json as written on first run
DefaultGrammar ==
    [common_pairs |->
        [noun |-> <<"verb", "adjective">>, verb |-> <<"noun", "adverb">>,
         adjective |-> <<"noun">>, adverb |-> <<"verb", "adjective">>],
     compatibility_rules |->
        [noun |-> [verb |-> <<4, 5>>, adjective |-> <<3, 5>>],
         verb |-> [noun |-> <<4, 5>>, adverb |-> <<7, 10>>],
         adjective |-> [noun |-> <<9, 10>>],
         adverb |-> [verb |-> <<4, 5>>]],
     flow_rules |->
        [noun |-> [verb |-> <<9, 10>>], verb |-> [noun |-> <<4, 5>>],
         adjective |-> [noun |-> <<9, 10>>], adverb |-> [verb |-> <<4, 5>>]],
     sentence_order |->
        [statement |-> <<"noun", "verb", "noun">>,
         question |-> <<"question_word", "verb", "noun">>,
         command |-> <<"verb", "noun">>]]

\* grammar_flow_casual.json as written on first run: {}
DefaultCasual == EmptyDict

\* dict.update
DictUpdate(d, e) == [k \in (DOMAIN d) \cup (DOMAIN e) |-> IF k \in DOMAIN e THEN e[k] ELSE d[k]]

\* _load_grammar_rules: formal rules, or the casual overlay merged key by key
LoadGrammarRules(m, formal, casual) ==
    IF m = "formal" THEN formal
    ELSE [key \in (DOMAIN formal) \cup (DOMAIN casual) |->
            IF key \in DOMAIN casual
            THEN IF key \in DOMAIN formal THEN DictUpdate(formal[key], casual[key])
                 ELSE casual[key]
            ELSE formal[key]]

\* grammar_rules.get(section, {})
Section(g, name) == IF name \in DOMAIN g THEN g[name] ELSE EmptyDict

-----------------------------------------------------------------------------
(* The lexicon store and the dictionary feed *)

Entry(class, synonyms, antonyms, acronyms, meaning) ==
    [class |-> class, synonyms |-> synonyms, antonyms |-> antonyms,
     acronyms |-> acronyms, meaning |-> meaning, expert_field |-> "general"]

InDb(db, w) == DHas(db, w)

\* AddPairs with the reverse edge forgotten
RECURSIVE AddPairsOneWay(_, _, _, _)
AddPairsOneWay(rel, word, list, delta) ==
    IF list = <<>> THEN rel
    ELSE AddPairsOneWay(RelAdd(rel, word, Head(list), delta), word, Tail(list), delta)

\* for synonym in data[...]: rel[word][x] += delta; rel[x][word] += delta
RECURSIVE AddPairs(_, _, _, _)
AddPairs(rel, word, list, delta) ==
    IF list = <<>> THEN rel
    ELSE AddPairs(RelAdd(RelAdd(rel, word, Head(list), delta), Head(list), word, delta),
                  word, Tail(list), delta)

\* the class-based loop of _build_relationships over word_db.items(), from index i
RECURSIVE AddClassPairs(_, _, _, _, _)
AddClassPairs(rel, word, db, compatible, i) ==
    IF i > Len(db) THEN rel
    ELSE AddClassPairs(
            IF db[i].k # word /\ db[i].v.class \in Range(compatible)
            THEN RelAdd(rel, word, db[i].k, <<3, 10>>) ELSE rel,
            word, db, compatible, i + 1)

\* BuildRelationships with the antonym delta added instead of subtracted
BuildRelationshipsPlus(db, rel, g, word) ==
    LET data == DGet(db, word)
        r1 == AddPairs(rel, word, data.synonyms, <<2, 1>>)
        r2 == AddPairs(r1, word, data.antonyms, <<3, 2>>)
        r3 == AddPairs(r2, word, data.acronyms, <<1, 1>>)
        common_pairs == Section(g, "common_pairs")
    IN  IF data.class \in DOMAIN common_pairs
        THEN AddClassPairs(r3, word, db, common_pairs[data.class], 1)
        ELSE r3

\* _build_relationships(word)
BuildRelationships(db, rel, g, word) ==
    LET data == DGet(db, word)
        r1 == AddPairs(rel, word, data.synonyms, <<2, 1>>)
        r2 == AddPairs(r1, word, data.antonyms, <<-3, 2>>)
        r3 == AddPairs(r2, word, data.acronyms, <<1, 1>>)
        common_pairs == Section(g, "common_pairs")
    IN  IF data.class \in DOMAIN common_pairs
        THEN AddClassPairs(r3, word, db, common_pairs[data.class], 1)
        ELSE r3

\* _check_partial_matches(word), from prefix length i
RECURSIVE CheckPartialMatches(_, _, _, _)
CheckPartialMatches(db, rel, word, i) ==
    IF i >= Len(word) THEN rel
    ELSE CheckPartialMatches(db,
            IF InDb(db, Prefix(word, i))
            THEN LET weight == RMul(<<1, 2>>, Rat(i, Len(word)))
                 IN  RelAdd(RelAdd(rel, word, Prefix(word, i), weight),
                            Prefix(word, i), word, weight)
            ELSE rel,
            word, i + 1)

\* the characters of _add_punctuation_and_numbers, in its order
PunctuationChars ==
    <<"!", ",", ".", "?", ";", ":", "~", "\"", "'", "(", ")", "[", "]", "{", "}">>

DigitChars == <<"0", "1", "2", "3", "4", "5", "6", "7", "8", "9">>

RECURSIVE AddPseudoWords(_, _, _, _)
AddPseudoWords(db, chars, class, i) ==
    IF i > Len(chars) THEN db
    ELSE AddPseudoWords(
            IF InDb(db, <<chars[i]>>) THEN db
            ELSE Append(db, [k |-> <<chars[i]>>,
                             v |-> Entry(class, <<>>, <<>>, <<>>, <<class, ":", chars[i]>>)]),
            chars, class, i + 1)

\* _add_punctuation_and_numbers
AddPunctuationAndNumbers(db) ==
    AddPseudoWords(AddPseudoWords(db, PunctuationChars, "punctuation", 1),
                   DigitChars, "number", 1)

\* ImportLineStep without the lower-casing of the word
ImportLineStepCaseSensitive(db, rel, g, line) ==
    IF line.kind # "record" THEN [db |-> db, rel |-> rel, status |-> "skipped"]
    ELSE LET word == line.word IN
         IF InDb(db, word) THEN [db |-> db, rel |-> rel, status |-> "skipped"]
         ELSE IF ~line.json_ok THEN [db |-> db, rel |-> rel, status |-> "raised"]
         ELSE LET db1 == Append(db, [k |-> word,
                                     v |-> Entry(line.class,
                                                 [i \in 1..Len(line.synonyms) |-> ToLower(line.synonyms[i])],
                                                 [i \in 1..Len(line.antonyms) |-> ToLower(line.antonyms[i])],
                                                 [i \in 1..Len(line.acronyms) |-> ToLower(line.acronyms[i])],
                                                 line.meaning)])
                  r1 == BuildRelationships(db1, rel, g, word)
                  r2 == CheckPartialMatches(db1, r1, word, 1)
              IN  [db |-> db1, rel |-> r2, status |-> "imported"]

\* one iteration of the loop of import_dictionary over the lines of the feed.
\* status "raised": json.loads failed on the pattern-data field, which ends the
\* whole import in the except clause.
ImportLineStep(db, rel, g, line) ==
    IF line.kind # "record" THEN [db |-> db, rel |-> rel, status |-> "skipped"]
    ELSE LET word == ToLower(line.word) IN
         IF InDb(db, word) THEN [db |-> db, rel |-> rel, status |-> "skipped"]
         ELSE IF ~line.json_ok THEN [db |-> db, rel |-> rel, status |-> "raised"]
         ELSE LET db1 == Append(db, [k |-> word,
                                     v |-> Entry(line.class,
                                                 [i \in 1..Len(line.synonyms) |-> ToLower(line.synonyms[i])],
                                                 [i \in 1..Len(line.antonyms) |-> ToLower(line.antonyms[i])],
                                                 [i \in 1..Len(line.acronyms) |-> ToLower(line.acronyms[i])],
                                                 line.meaning)])
                  r1 == BuildRelationships(db1, rel, g, word)
                  r2 == CheckPartialMatches(db1, r1, word, 1)
              IN  [db |-> db1, rel |-> r2, status |-> "imported"]

-----------------------------------------------------------------------------
(* The pattern index *)

\* pattern_relationships[w][bucket] without creating it ("before" and "after"
\* hold an ordered dict word -> strength)
Bucket(pat, w, b) == IF w \in DOMAIN pat /\ b \in DOMAIN pat[w] THEN pat[w][b] ELSE <<>>

\* pattern_relationships[w][bucket] := d  (creates the keys)
SetBucket(pat, w, b, d) ==
    LET old == IF w \in DOMAIN pat THEN pat[w] ELSE NoKeys
        new == [x \in (DOMAIN old) \cup {b} |-> IF x = b THEN d ELSE old[x]]
    IN  [x \in (DOMAIN pat) \cup {w} |-> IF x = w THEN new ELSE pat[x]]

\* a read pattern_relationships[w][bucket]: the state it leaves
TouchBucket(pat, w, b) == SetBucket(pat, w, b, Bucket(pat, w, b))

\* the strength a read finds: 0.0 when the key is missing
Strength(pat, w, b, other) ==
    IF DHas(Bucket(pat, w, b), other) THEN DGet(Bucket(pat, w, b), other) ELSE Zero

-----------------------------------------------------------------------------
(* Bridging (the training processes of import_dictionary) *)

RECURSIVE Dedup(_, _)
Dedup(list, acc) ==
    IF list = <<>> THEN acc
    ELSE Dedup(Tail(list), IF Head(list) \in Range(acc) THEN acc ELSE Append(acc, Head(list)))

\* for sub in other[field]: if sub != word and sub not in all: all.add(sub)
RECURSIVE CollectSubs(_, _, _)
CollectSubs(all, word, subs) ==
    IF subs = <<>> THEN all
    ELSE CollectSubs(IF Head(subs) # word /\ Head(subs) \notin Range(all)
                     THEN Append(all, Head(subs)) ELSE all,
                     word, Tail(subs))

\* for synonym in data[field][:]: if synonym in word_db: ...
RECURSIVE CollectAll(_, _, _, _, _)
CollectAll(all, word, db, field, list) ==
    IF list = <<>> THEN all
    ELSE CollectAll(IF InDb(db, Head(list))
                    THEN CollectSubs(all, word, DGet(db, Head(list))[field]) ELSE all,
                    word, db, field, Tail(list))

\* for new in all: if new not in rel[word]: rel[word][new] += delta; rel[new][word] += delta
RECURSIVE BridgeEdges(_, _, _, _)
BridgeEdges(rel, word, all, delta) ==
    IF all = <<>> THEN rel
    ELSE BridgeEdges(IF ~HasEdge(rel, word, Head(all))
                     THEN RelAdd(RelAdd(rel, word, Head(all), delta), Head(all), word, delta)
                     ELSE RelTouch(rel, word),
                     word, Tail(all), delta)

\* _bridge_synonyms / _bridge_antonyms: the loop over word_db.items(), from index i.
\* list(all) is kept in the order the members were found.
RECURSIVE Bridge(_, _, _, _, _)
Bridge(db, rel, field, delta, i) ==
    IF i > Len(db) THEN [db |-> db, rel |-> rel]
    ELSE LET word == db[i].k
             data == db[i].v
             own  == Dedup(data[field], <<>>)
             all  == CollectAll(own, word, db, field, data[field])
         IN  IF Range(all) # Range(data[field])
             THEN Bridge([db EXCEPT ![i].v[field] = all],
                         BridgeEdges(rel, word, all, delta), field, delta, i + 1)
             ELSE Bridge(db, rel, field, delta, i + 1)

\* expert_fields.json as written on first run, in file order
ExpertFields ==
    << [name |-> "stem", weight |-> <<3, 2>>,
        keywords |-> {"science", "technology", "engineering", "math", "physics", "chemistry"}],
       [name |-> "art", weight |-> <<13, 10>>,
        keywords |-> {"paint", "draw", "design", "creative", "color", "artist"}],
       [name |-> "music", weight |-> <<13, 10>>,
        keywords |-> {"song", "music", "sound", "instrument", "melody", "rhythm"}],
       [name |-> "strategy", weight |-> <<7, 5>>,
        keywords |-> {"plan", "strategy", "tactic", "game", "win", "compete"}],
       [name |-> "news", weight |-> <<6, 5>>,
        keywords |-> {"news", "current", "event", "today", "update", "trending"}],
       [name |-> "programming", weight |-> <<8, 5>>,
        keywords |-> {"code", "program", "software", "algorithm", "function", "variable"}] >>

\* `term in meaning`: a meaning is the sequence of its terms
Contains(meaning, term) == term \in Range(meaning)

\* the score _deduce_expert_field gives one field; present tells whether the
\* defaultdict got the key
ExpertScore(db, data, f) ==
    LET kws  == {k \in f.keywords : Contains(data.meaning, k)}
        syns == {j \in 1..Len(data.synonyms) :
                    /\ InDb(db, data.synonyms[j])
                    /\ DGet(db, data.synonyms[j]).expert_field = f.name}
    IN  [present |-> kws # {} \/ syns # {},
         score |-> RAdd(RMul(f.weight, <<Cardinality(kws), 1>>),
                        RMul(<<1, 2>>, <<Cardinality(syns), 1>>))]

\* the first maximal item of a sequence of [k, v] (Python's max over items)
FirstMax(items) ==
    LET best == CHOOSE i \in 1..Len(items) :
                  /\ \A j \in 1..Len(items) : RLe(items[j].v, items[i].v)
                  /\ \A j \in 1..(i - 1) : RLt(items[j].v, items[i].v)
    IN  items[best].k

\* _deduce_expert_field(word, data)
DeduceExpertField(db, data) ==
    LET scores == SelectSeq([i \in 1..Len(ExpertFields) |->
                                [k |-> ExpertFields[i].name,
                                 v |-> ExpertScore(db, data, ExpertFields[i]).score,
                                 present |-> ExpertScore(db, data, ExpertFields[i]).present]],
                            LAMBDA x : x.present)
    IN  IF scores # <<>> THEN FirstMax(scores) ELSE "general"

\* BridgeExperts with the test of the current field forgotten
RECURSIVE BridgeExpertsOverwrite(_, _)
BridgeExpertsOverwrite(db, i) ==
    IF i > Len(db) THEN db
    ELSE LET best == DeduceExpertField(db, db[i].v)
         IN  BridgeExpertsOverwrite(IF best # "general"
                                    THEN [db EXCEPT ![i].v.expert_field = best] ELSE db,
                                    i + 1)

\* _bridge_experts: the loop over word_db.items(), from index i
RECURSIVE BridgeExperts(_, _)
BridgeExperts(db, i) ==
    IF i > Len(db) THEN db
    ELSE LET best == DeduceExpertField(db, db[i].v)
         IN  BridgeExperts(IF best # "general" /\ db[i].v.expert_field = "general"
                           THEN [db EXCEPT ![i].v.expert_field = best] ELSE db,
                           i + 1)

\* scores[k] += delta on a defaultdict(float)
ScoreAdd(scores, k, delta) ==
    DPut(scores, k, RAdd(IF DHas(scores, k) THEN DGet(scores, k) ELSE Zero, delta))

\* section.get(cls, {})
ClassMap(section, cls) == IF cls \in DOMAIN section THEN section[cls] ELSE EmptyDict

TestClasses == <<"noun", "verb", "adjective", "adverb">>

RECURSIVE InferTest(_, _, _, _)
InferTest(scores, cmap, strength, tests) ==
    IF tests = <<>> THEN scores
    ELSE InferTest(IF Head(tests) \in DOMAIN cmap
                   THEN ScoreAdd(scores, Head(tests), RMul(strength, cmap[Head(tests)]))
                   ELSE scores,
                   cmap, strength, Tail(tests))

RECURSIVE InferFromItems(_, _, _, _)
InferFromItems(scores, db, compat, items) ==
    IF items = <<>> THEN scores
    ELSE InferFromItems(
            IF InDb(db, Head(items).k)
            THEN InferTest(scores, ClassMap(compat, DGet(db, Head(items).k).class),
                           Head(items).v, TestClasses)
            ELSE scores,
            db, compat, Tail(items))

RECURSIVE InferFromSynonyms(_, _, _, _)
InferFromSynonyms(scores, db, word, i) ==
    IF i > Len(db) THEN scores
    ELSE InferFromSynonyms(
            IF word \in Range(db[i].v.synonyms) /\ db[i].v.class # "unknown"
            THEN ScoreAdd(scores, db[i].v.class, <<1, 1>>) ELSE scores,
            db, word, i + 1)

\* _infer_word_class_from_patterns(word)
InferWordClassFromPatterns(db, pat, g, word) ==
    LET compat == Section(g, "compatibility_rules")
        s1 == InferFromItems(<<>>, db, compat, Bucket(pat, word, "before"))
        s2 == InferFromItems(s1, db, compat, Bucket(pat, word, "after"))
        s3 == InferFromSynonyms(s2, db, word, 1)
    IN  IF s3 # <<>> THEN FirstMax(s3) ELSE "unknown"

\* _infer_unknown_word_classes: the loop over word_db.items(), from index i
RECURSIVE InferUnknownWordClasses(_, _, _, _)
InferUnknownWordClasses(db, pat, g, i) ==
    IF i > Len(db) THEN [db |-> db, pat |-> pat]
    ELSE IF db[i].v.class # "unknown" THEN InferUnknownWordClasses(db, pat, g, i + 1)
    ELSE LET inferred == InferWordClassFromPatterns(db, pat, g, db[i].k)
             pat1 == TouchBucket(TouchBucket(pat, db[i].k, "before"), db[i].k, "after")
         IN  InferUnknownWordClasses(
                IF inferred # "unknown" THEN [db EXCEPT ![i].v.class = inferred] ELSE db,
                pat1, g, i + 1)

\* the end of import_dictionary: the pseudo-words, then the training processes
FinishImport(db, rel, pat, g, op_mode) ==
    LET db1 == AddPunctuationAndNumbers(db) IN
    IF op_mode = "training"
    THEN LET b1 == Bridge(db1, rel, "synonyms", <<2, 1>>, 1)
             b2 == Bridge(b1.db, b1.rel, "antonyms", <<-3, 2>>, 1)
             db3 == BridgeExperts(b2.db, 1)
             inf == InferUnknownWordClasses(db3, pat, g, 1)
         IN  [db |-> inf.db, rel |-> b2.rel, pat |-> inf.pat]
    ELSE [db |-> db1, rel |-> rel, pat |-> pat]

-----------------------------------------------------------------------------
(* The dictionary feed the model reads *)

MaxFeed == 2

wa == <<"a">>
wab == <<"a", "b">>
wb == <<"b">>

\* class and word of the well-formed records: "a" is a prefix of "ab", "A"
\* lower-cases to "a", noun and verb are a common pair, noun and noun are not
LineHeads ==
    {<<"noun", wa>>, <<"verb", <<"A">>>>, <<"verb", wab>>, <<"noun", wab>>, <<"noun", wb>>}

\* synonyms, antonyms and acronyms of the well-formed records
LineRelations ==
    {<< <<>>, <<>>, <<>> >>,
     << <<wb>>, <<>>, <<>> >>,
     << <<wa>>, <<>>, <<>> >>,
     << <<wb, wb>>, <<>>, <<>> >>,
     << <<>>, <<wb>>, <<>> >>,
     << <<>>, <<wa>>, <<>> >>,
     << <<wb>>, <<wb>>, <<>> >>,
     << <<wb>>, <<>>, << <<"B">> >> >>,
     << <<>>, <<wb>>, <<wb>> >>}

\* well-formed records: class; word; ...; synonyms; antonyms; meaning; acronyms; {}
RecordLines ==
    {[kind |-> "record", class |-> h[1], word |-> h[2], synonyms |-> r[1],
      antonyms |-> r[2], acronyms |-> r[3], meaning |-> <<"plain">>, json_ok |-> TRUE] :
        h \in LineHeads, r \in LineRelations}

\* a blank line, a # comment, a line without a second field, a record whose
\* meaning mentions a topic, and a record whose pattern-data field is not JSON
OtherLines ==
    {[kind |-> "blank"], [kind |-> "comment"], [kind |-> "short"],
     [kind |-> "record", class |-> "adjective", word |-> <<"A">>, synonyms |-> <<wb>>,
      antonyms |-> <<>>, acronyms |-> <<>>, meaning |-> <<"digital", "code">>, json_ok |-> TRUE],
     [kind |-> "record", class |-> "noun", word |-> wb, synonyms |-> <<>>,
      antonyms |-> <<>>, acronyms |-> <<>>, meaning |-> <<"plain">>, json_ok |-> FALSE]}

FeedLines == RecordLines \cup OtherLines

NoLine == [kind |-> "none"]

NoRet == [kind |-> "none"]

NoCall == [op |-> "none"]

-----------------------------------------------------------------------------
(* Construction and import *)

\* __init__ up to the call of import_dictionary
Init ==
    /\ word_db = <<>>
    /\ word_relationships = NoKeys
    /\ pattern_relationships = NoKeys
    /\ mode = "formal"
    /\ operation_mode = "speech"
    /\ grammar_rules = LoadGrammarRules("formal", DefaultGrammar, DefaultCasual)
    /\ min_words = 3
    /\ max_words = 20
    /\ current_tone = "neutral"
    /\ pc = "importing"
    /\ nlines = 0
    /\ ncalls = 0
    /\ nanalyses = 0
    /\ last_line = NoLine
    /\ pre_db = <<>>
    /\ pre_relationships = NoKeys
    /\ pre_patterns = NoKeys
    /\ call = NoCall
    /\ ret = NoRet

\* import_dictionary reads one more line of the feed
ImportLine(line) ==
    /\ pc = "importing"
    /\ nlines < MaxFeed
    /\ LET r == ImportLineStep(word_db, word_relationships, grammar_rules, line) IN
        /\ word_db' = r.db
        /\ word_relationships' = r.rel
        /\ pc' = IF r.status = "raised" THEN "ready" ELSE "importing"
        /\ ret' = [kind |-> "import", status |-> r.status]
    /\ nlines' = nlines + 1
    /\ last_line' = line
    /\ pre_db' = word_db
    /\ pre_relationships' = word_relationships
    /\ pre_patterns' = pattern_relationships
    /\ UNCHANGED <<pattern_relationships, grammar_rules, mode, operation_mode,
                   min_words, max_words, current_tone, ncalls, nanalyses, call>>

\* import_dictionary reaches the end of the feed
ImportFinish ==
    /\ pc = "importing"
    /\ LET r == FinishImport(word_db, word_relationships, pattern_relationships,
                             grammar_rules, operation_mode) IN
        /\ word_db' = r.db
        /\ word_relationships' = r.rel
        /\ pattern_relationships' = r.pat
    /\ pc' = "ready"
    /\ last_line' = NoLine
    /\ pre_db' = word_db
    /\ pre_relationships' = word_relationships
    /\ pre_patterns' = pattern_relationships
    /\ ret' = [kind |-> "import", status |-> "finished"]
    /\ UNCHANGED <<grammar_rules, mode, operation_mode, min_words, max_words,
                   current_tone, nlines, ncalls, nanalyses, call>>

Next ==
    \/ \E line \in FeedLines : ImportLine(line)
    \/ ImportFinish

Spec == Init /\ [][Next]_vars

-----------------------------------------------------------------------------
(* Texts and tokens *)

\* A text is the sequence of its whitespace-separated raw tokens; a token is a
\* run of word characters or one punctuation character.

\* re.findall(r'\b\w+\b|[^\w\s]', text.lower())
AllTokens(text) == [i \in 1..Len(text) |-> ToLower(text[i])]

\* a token matched by \w+ (not by [^\w\s]): in the model every punctuation
\* character other than "_" is a non-word character
IsWordToken(w) == ~(Len(w) = 1 /\ w[1] \in StringPunctuation \ {"_"})

\* [w for w in re.findall(r'\b\w+\b', text.lower()) if w not in string.punctuation]
WordTokens(text) ==
    SelectSeq(AllTokens(text), LAMBDA w : IsWordToken(w) /\ ~InPunctuation(w))

\* text.strip() is empty
IsBlank(text) == text = <<>>

\* a lookup that takes the longest stored prefix instead of the shortest
GetWordClassLongestPrefix(db, word) ==
    IF \E i \in 1..Len(word) : InDb(db, Prefix(word, i))
    THEN LET i == CHOOSE i \in 1..Len(word) :
                     /\ InDb(db, Prefix(word, i))
                     /\ \A j \in (i + 1)..Len(word) : ~InDb(db, Prefix(word, j))
         IN  DGet(db, Prefix(word, i)).class
    ELSE "unknown"

\* _get_word_class(word): exact match, else the shortest prefix in the store
GetWordClass(db, word) ==
    IF InDb(db, word) THEN DGet(db, word).class
    ELSE IF \E i \in 1..Len(word) : InDb(db, Prefix(word, i))
         THEN LET i == CHOOSE i \in 1..Len(word) :
                          /\ InDb(db, Prefix(word, i))
                          /\ \A j \in 1..(i - 1) : ~InDb(db, Prefix(word, j))
              IN  DGet(db, Prefix(word, i)).class
         ELSE "unknown"

\* _calculate_known_words_ratio(words)
CalculateKnownWordsRatio(db, words) ==
    LET counted == SelectSeq(words, LAMBDA w : ~InPunctuation(w))
        known   == SelectSeq(counted, LAMBDA w : GetWordClass(db, w) # "unknown")
    IN  IF Len(counted) = 0 THEN Zero
        ELSE RMul(Rat(Len(known), Len(counted)), <<100, 1>>)

-----------------------------------------------------------------------------
(* Prediction *)

\* the number of predictions _get_top_predictions keeps
TopN == 10

\* sorted(..., key=score, reverse=True): stable, so equal scores keep their order
\* an insertion that puts an item before the earlier items of the same score
RECURSIVE InsertDescTiesFirst(_, _)
InsertDescTiesFirst(sorted, item) ==
    IF sorted = <<>> THEN <<item>>
    ELSE IF RLe(Head(sorted).v, item.v) THEN <<item>> \o sorted
    ELSE <<Head(sorted)>> \o InsertDescTiesFirst(Tail(sorted), item)

RECURSIVE InsertDesc(_, _)
InsertDesc(sorted, item) ==
    IF sorted = <<>> THEN <<item>>
    ELSE IF RLt(Head(sorted).v, item.v) THEN <<item>> \o sorted
    ELSE <<Head(sorted)>> \o InsertDesc(Tail(sorted), item)

RECURSIVE SortDesc(_, _)
SortDesc(items, acc) ==
    IF items = <<>> THEN acc
    ELSE Strict(acc, SortDesc(Tail(items), InsertDesc(acc, Head(items))))

FirstN(list, n) == SubSeq(list, 1, IF Len(list) < n THEN Len(list) ELSE n)

\* a selection that keeps the positive scores in the order they were given
TopPredictionsUnsorted(scores) ==
    FirstN(SelectSeq(scores, LAMBDA x : RPos(x.v)), TopN)

\* _get_top_predictions(scores)
GetTopPredictions(scores) ==
    FirstN(SortDesc(SelectSeq(scores, LAMBDA x : RPos(x.v)), <<>>), TopN)

\* _get_expected_classes(current_class)
GetExpectedClasses(g, class) ==
    LET expected == DOMAIN ClassMap(Section(g, "flow_rules"), class)
    IN  IF expected # {} THEN expected ELSE {"noun", "verb"}

\* for related_word, rel_strength in word_relationships[last].items(): ...
RECURSIVE SimpleFromRelations(_, _)
SimpleFromRelations(scores, items) ==
    IF items = <<>> THEN scores
    ELSE Strict(scores, SimpleFromRelations(
            IF RPos(Head(items).v)
            THEN ScoreAdd(scores, Head(items).k, RMul(Head(items).v, <<1, 2>>)) ELSE scores,
            Tail(items)))

\* for next_word, pattern_strength in pattern_relationships[last]['after'].items(): ...
RECURSIVE SimpleFromPatterns(_, _)
SimpleFromPatterns(scores, items) ==
    IF items = <<>> THEN scores
    ELSE Strict(scores, SimpleFromPatterns(
            ScoreAdd(scores, Head(items).k, RMul(Head(items).v, <<3, 10>>)), Tail(items)))

\* for word, data in word_db.items(): if data['class'] in expected_classes: ...
RECURSIVE SimpleFromClasses(_, _, _, _)
SimpleFromClasses(scores, db, expected, i) ==
    IF i > Len(db) THEN scores
    ELSE Strict(scores, SimpleFromClasses(
            IF db[i].v.class \in expected THEN ScoreAdd(scores, db[i].k, <<1, 5>>) ELSE scores,
            db, expected, i + 1))

\* _simple_relationship_prediction(words): the scores dict
SimpleScores(db, rel, pat, g, words) ==
    LET last_word == words[Len(words)]
        s1 == SimpleFromRelations(<<>>, Inner(rel, last_word))
        s2 == SimpleFromPatterns(s1, Bucket(pat, last_word, "after"))
    IN  SimpleFromClasses(s2, db, GetExpectedClasses(g, GetWordClass(db, last_word)), 1)

\* _calculate_grammatical_flow(last_word, candidate_word)
CalculateGrammaticalFlow(db, g, last_word, candidate) ==
    LET cmap == ClassMap(Section(g, "flow_rules"), GetWordClass(db, last_word))
        cc == GetWordClass(db, candidate)
    IN  IF cc \in DOMAIN cmap THEN cmap[cc] ELSE <<1, 10>>

\* previous_words[-n:]
LastN(words, n) == SubSeq(words, IF Len(words) > n THEN Len(words) - n + 1 ELSE 1, Len(words))

RECURSIVE SumSeq(_)
SumSeq(list) == IF list = <<>> THEN Zero ELSE RAdd(Head(list), SumSeq(Tail(list)))

\* _calculate_contextual_coherence(candidate_word, previous_words)
CalculateContextualCoherence(rel, candidate, words) ==
    LET prev == LastN(words, 3)
        terms == [i \in 1..Len(prev) |->
                    IF HasEdge(rel, candidate, prev[i]) /\ RPos(Weight(rel, candidate, prev[i]))
                    THEN RMul(Weight(rel, candidate, prev[i]), <<1, 5>>) ELSE Zero]
    IN  RMin(<<1, 1>>, SumSeq(terms))

\* _get_semantic_field(word)
GetSemanticField(db, word) ==
    IF ~InDb(db, word) THEN "general"
    ELSE LET meaning == DGet(db, word).meaning IN
         IF \E t \in {"computer", "digital", "electronic"} : Contains(meaning, t)
         THEN "technology"
         ELSE IF \E t \in {"science", "research", "study"} : Contains(meaning, t)
         THEN "science"
         ELSE IF \E t \in {"math", "calculate", "number"} : Contains(meaning, t)
         THEN "mathematics"
         ELSE "general"

\* _calculate_field_consistency(candidate_word, previous_words)
CalculateFieldConsistency(db, candidate, words) ==
    LET field == GetSemanticField(db, candidate)
        prev == LastN(words, 2)
    IN  IF field = "general" THEN <<3, 10>>
        ELSE RMul(<<Cardinality({i \in 1..Len(prev) : GetSemanticField(db, prev[i]) = field}), 1>>,
                  <<1, 5>>)

\* the total score _complex_relationship_prediction gives one candidate
ComplexScore(db, rel, pat, g, words, candidate) ==
    LET last_word == words[Len(words)]
        direct == RMul(RMax(Zero, Weight(rel, last_word, candidate)), <<3, 10>>)
        pattern == RMul(Strength(pat, last_word, "after", candidate), <<1, 4>>)
        flow == RMul(CalculateGrammaticalFlow(db, g, last_word, candidate), <<1, 5>>)
        coherence == RMul(CalculateContextualCoherence(rel, candidate, words), <<3, 20>>)
        field == RMul(CalculateFieldConsistency(db, candidate, words), <<1, 10>>)
    IN  RAdd(RAdd(RAdd(RAdd(direct, pattern), flow), coherence), field)

\* entries with weight 0.0 for the keys a dict lacks, appended in order
WithZeros(d, keys) ==
    d \o [i \in 1..Len(SelectSeq(keys, LAMBDA c : ~DHas(d, c))) |->
            [k |-> SelectSeq(keys, LAMBDA c : ~DHas(d, c))[i], v |-> Zero]]

\* _complex_relationship_prediction(words): the scores dict and the keys its
\* reads create. Every candidate (every stored word but the last word) is read
\* as word_relationships[last][candidate], as
\* pattern_relationships[last]['after'][candidate] and as
\* word_relationships[candidate]; a key created with weight 0.0 for one
\* candidate changes no score of a later one.
ComplexPrediction(db, rel, pat, g, words) ==
    LET last_word == words[Len(words)]
        candidates == SelectSeq(DKeys(db), LAMBDA c : c # last_word)
        totals == [i \in 1..Len(candidates) |->
                     [k |-> candidates[i],
                      v |-> ComplexScore(db, rel, pat, g, words, candidates[i])]]
        inner == WithZeros(Inner(rel, last_word), candidates)
        after == WithZeros(Bucket(pat, last_word, "after"), candidates)
    IN  [scores |-> SelectSeq(totals, LAMBDA x : RPos(x.v)),
         rel |-> IF candidates = <<>> THEN rel
                 ELSE [x \in (DOMAIN rel) \cup {last_word} \cup Range(candidates) |->
                          IF x = last_word THEN inner ELSE Inner(rel, x)],
         pat |-> IF candidates = <<>> THEN pat ELSE SetBucket(pat, last_word, "after", after)]

\* predict_next(text, mode): what it returns and the state it leaves.
\* With no word token it returns the bare list [], not a pair.
PredictNextResult(db, rel, pat, g, text, m) ==
    LET words == WordTokens(text) IN
    IF words = <<>> THEN [ret |-> [kind |-> "list", list |-> <<>>], rel |-> rel, pat |-> pat]
    ELSE LET known_ratio == CalculateKnownWordsRatio(db, AllTokens(text))
             last_word == words[Len(words)]
         IN  IF m = "simple"
             THEN [ret |-> [kind |-> "pair",
                            list |-> GetTopPredictions(SimpleScores(db, rel, pat, g, words)),
                            ratio |-> known_ratio],
                   rel |-> RelTouch(rel, last_word),
                   pat |-> TouchBucket(pat, last_word, "after")]
             ELSE LET c == ComplexPrediction(db, rel, pat, g, words)
                  IN  [ret |-> [kind |-> "pair", list |-> GetTopPredictions(c.scores),
                                ratio |-> known_ratio],
                       rel |-> c.rel, pat |-> c.pat]

-----------------------------------------------------------------------------
(* Pattern analysis *)

\* all_words.index(w): the first position of w (positions count from 1 here)
IndexOf(words, w) == CHOOSE i \in 1..Len(words) :
                        words[i] = w /\ \A j \in 1..(i - 1) : words[j] # w

\* _get_word_position(index, total_words), index counted from 1
GetWordPosition(index, total) ==
    IF total <= 1 THEN "single_word"
    ELSE IF index = 1 THEN "beginning_sentence"
    ELSE IF index = total THEN "end_sentence"
    ELSE "middle_sentence"

\* _calculate_grammatical_compatibility(word1, word2)
CalculateGrammaticalCompatibility(db, g, word1, word2) ==
    LET cmap == ClassMap(Section(g, "compatibility_rules"), GetWordClass(db, word1))
        c2 == GetWordClass(db, word2)
    IN  IF c2 \in DOMAIN cmap THEN cmap[c2] ELSE <<1, 10>>

\* _calculate_semantic_proximity(word1, word2, all_words, current_index): its
\* value; it iterates the keys of word_relationships[word1], zero-weight keys
\* included, and creates the outer key of word2
CalculateSemanticProximity(rel, word1, word2, all_words, ci) ==
    LET keys == DKeys(Inner(rel, word1))
        shared == Cardinality({i \in 1..Len(keys) :
                                  /\ HasEdge(rel, word2, keys[i])
                                  /\ RPos(Weight(rel, word2, keys[i]))})
        idx == IF word2 \in Range(all_words) THEN IndexOf(all_words, word2) ELSE ci
        distance == Abs(ci - idx)
        near == IF distance > 0 THEN RMul(Rat(1, distance), <<3, 10>>) ELSE Zero
    IN  RMin(<<1, 1>>, RAdd(RMul(<<shared, 1>>, <<1, 5>>), near))

\* theme_words[:3] of _calculate_contextual_relevance
ThemeWords(word1, word2, all_words) ==
    FirstN(SelectSeq(all_words, LAMBDA w : w # word1 /\ w # word2 /\ ~InPunctuation(w)), 3)

\* _calculate_contextual_relevance(word1, word2, all_words): its value
CalculateContextualRelevance(rel, word1, word2, all_words) ==
    LET theme == ThemeWords(word1, word2, all_words)
        shared == Cardinality({i \in 1..Len(theme) :
                                  /\ RPos(Weight(rel, word1, theme[i]))
                                  /\ RPos(Weight(rel, word2, theme[i]))})
    IN  RMin(<<1, 2>>, RMul(<<shared, 1>>, <<1, 5>>))

\* the keys the reads of _calculate_contextual_relevance create: the second
\* read happens only when the first finds a positive weight
RECURSIVE RelevanceReads(_, _, _, _)
RelevanceReads(rel, word1, word2, theme) ==
    IF theme = <<>> THEN rel
    ELSE LET r1 == RelRead(rel, word1, Head(theme))
             r2 == IF RPos(Weight(rel, word1, Head(theme)))
                   THEN RelRead(r1, word2, Head(theme)) ELSE r1
         IN  Strict(rel, RelevanceReads(r2, word1, word2, Tail(theme)))

\* CalculatePatternRelationship without the final max(0.0, strength)
CalculatePatternRelationshipUnclamped(db, rel, g, word1, word2, all_words, ci) ==
    LET rel1 == RelRead(rel, word1, word2)
        direct == RMul(RAbs(Weight(rel, word1, word2)), <<2, 5>>)
        semantic == RMul(CalculateSemanticProximity(rel1, word1, word2, all_words, ci), <<1, 4>>)
        rel2 == RelTouch(rel1, word2)
        grammatical == RMul(CalculateGrammaticalCompatibility(db, g, word1, word2), <<1, 5>>)
        contextual == RMul(CalculateContextualRelevance(rel2, word1, word2, all_words), <<3, 20>>)
        rel3 == RelevanceReads(rel2, word1, word2, ThemeWords(word1, word2, all_words))
    IN  [val |-> RAdd(RAdd(RAdd(direct, semantic), grammatical), contextual),
         rel |-> rel3]

\* _calculate_pattern_relationship(word1, word2, all_words, current_index):
\* the strength and the relationship index its reads leave
CalculatePatternRelationship(db, rel, g, word1, word2, all_words, ci) ==
    LET rel1 == RelRead(rel, word1, word2)
        direct == RMul(RAbs(Weight(rel, word1, word2)), <<2, 5>>)
        semantic == RMul(CalculateSemanticProximity(rel1, word1, word2, all_words, ci), <<1, 4>>)
        rel2 == RelTouch(rel1, word2)
        grammatical == RMul(CalculateGrammaticalCompatibility(db, g, word1, word2), <<1, 5>>)
        contextual == RMul(CalculateContextualRelevance(rel2, word1, word2, all_words), <<3, 20>>)
        rel3 == RelevanceReads(rel2, word1, word2, ThemeWords(word1, word2, all_words))
    IN  [val |-> RMax(Zero, RAdd(RAdd(RAdd(direct, semantic), grammatical), contextual)),
         rel |-> rel3]

\* pattern_relationships[w][bucket][other] += delta
PatAdd(pat, w, b, other, delta) ==
    SetBucket(pat, w, b, DPut(Bucket(pat, w, b), other, RAdd(Strength(pat, w, b, other), delta)))

\* _build_relationship_patterns(current_word, all_words, current_index), from
\* position i. The bucket named after a sentence position stands for
\* pattern_relationships[w]['position_context'][position].
RECURSIVE BuildRelationshipPatterns(_, _, _, _, _, _, _, _)
BuildRelationshipPatterns(db, rel, pat, g, current, all_words, ci, i) ==
    IF i > Len(all_words) THEN [rel |-> rel, pat |-> pat]
    ELSE IF i = ci \/ InPunctuation(all_words[i])
    THEN BuildRelationshipPatterns(db, rel, pat, g, current, all_words, ci, i + 1)
    ELSE LET other == all_words[i]
             r == CalculatePatternRelationship(db, rel, g, current, other, all_words, ci)
             pat1 == PatAdd(pat, current, IF i < ci THEN "before" ELSE "after", other, r.val)
             pat2 == PatAdd(pat1, current, GetWordPosition(i, Len(all_words)), other, r.val)
         IN  Strict(<<rel, pat>>,
                BuildRelationshipPatterns(db, r.rel, pat2, g, current, all_words, ci, i + 1))

\* the loop of analyze_patterns over the tokens, from position i
RECURSIVE AnalyzeLoop(_, _, _, _, _, _)
AnalyzeLoop(db, rel, pat, g, words, i) ==
    IF i > Len(words) THEN [rel |-> rel, pat |-> pat]
    ELSE IF InPunctuation(words[i]) THEN AnalyzeLoop(db, rel, pat, g, words, i + 1)
    ELSE LET b == BuildRelationshipPatterns(db, rel, pat, g, words[i], words, i, 1)
             rel1 == IF i > 1 /\ ~InPunctuation(words[i - 1])
                     THEN CalculatePatternRelationship(db, b.rel, g, words[i - 1], words[i],
                                                       words, i).rel
                     ELSE b.rel
         IN  Strict(<<rel, pat>>, AnalyzeLoop(db, rel1, b.pat, g, words, i + 1))

-----------------------------------------------------------------------------
(* Context and enhancement layers *)

\* the word "general"
wgeneral == <<"g", "e", "n", "e", "r", "a", "l">>

\* Counter(nouns).items(): each noun once, in order of first occurrence, with its count
NounCounts(nouns) ==
    LET firsts == SelectSeq([i \in 1..Len(nouns) |-> i],
                            LAMBDA i : \A j \in 1..(i - 1) : nouns[j] # nouns[i])
    IN  [n \in 1..Len(firsts) |->
            [k |-> nouns[firsts[n]],
             v |-> Cardinality({j \in 1..Len(nouns) : nouns[j] = nouns[firsts[n]]})]]

RECURSIVE AddCounts(_, _)
AddCounts(weights, counts) ==
    IF counts = <<>> THEN weights
    ELSE Strict(weights, AddCounts(
            ScoreAdd(weights, Head(counts).k, RMul(<<Head(counts).v, 1>>, <<1, 2>>)),
            Tail(counts)))

RECURSIVE AddEach(_, _, _)
AddEach(weights, keys, delta) ==
    IF keys = <<>> THEN weights
    ELSE Strict(weights, AddEach(ScoreAdd(weights, Head(keys), delta), Tail(keys), delta))

RECURSIVE AddNounSynonyms(_, _, _)
AddNounSynonyms(weights, db, nouns) ==
    IF nouns = <<>> THEN weights
    ELSE AddNounSynonyms(
            IF InDb(db, Head(nouns))
            THEN AddEach(weights, DGet(db, Head(nouns)).synonyms, <<3, 10>>) ELSE weights,
            db, Tail(nouns))

\* max(d.items(), key=value)[0]: the first key with the greatest value
FirstMaxKey(d) ==
    d[CHOOSE i \in 1..Len(d) :
        /\ \A j \in 1..Len(d) : RLe(d[j].v, d[i].v)
        /\ \A j \in 1..(i - 1) : RLt(d[j].v, d[i].v)].k

\* noun_weights of _deduce_context(text)
NounWeights(db, text) ==
    LET nouns == SelectSeq(WordTokens(text), LAMBDA w : GetWordClass(db, w) = "noun")
    IN  IF nouns = <<>> THEN <<>>
        ELSE AddNounSynonyms(AddCounts(<<[k |-> nouns[1], v |-> <<2, 1>>]>>, NounCounts(nouns)),
                             db, nouns)

\* _deduce_context(text)['main_topic']
MainTopic(db, text) ==
    LET weights == NounWeights(db, text)
        words == WordTokens(text)
    IN  IF weights # <<>> THEN FirstMaxKey(weights)
        ELSE IF words # <<>> THEN words[1] ELSE wgeneral

\* [(word, f(word, score)) ...] sorted by score, greatest first
Rescore(predictions, F(_, _)) ==
    SortDesc([i \in 1..Len(predictions) |->
                [k |-> predictions[i].k, v |-> F(predictions[i].k, predictions[i].v)]], <<>>)

\* get_contextual_predictions(text, base_predictions)
GetContextualPredictions(db, rel, text, predictions) ==
    LET topic == MainTopic(db, text)
        Boosted(word, score) ==
            IF topic \in DOMAIN rel /\ HasEdge(rel, topic, word)
            THEN RMul(score, RAdd(<<1, 1>>, RMul(Weight(rel, topic, word), <<1, 10>>)))
            ELSE score
    IN  Rescore(predictions, Boosted)

\* emotional_tones of _initialize_enhancements
EmotionalTones ==
    <<[name |-> "formal", weight |-> <<1, 1>>,
       words |-> <<<<"t", "h", "e", "r", "e", "f", "o", "r", "e">>,
                  <<"h", "o", "w", "e", "v", "e", "r">>, <<"t", "h", "u", "s">>>>],
      [name |-> "casual", weight |-> <<4, 5>>,
       words |-> <<<<"h", "e", "y">>, <<"c", "o", "o", "l">>,
                  <<"a", "w", "e", "s", "o", "m", "e">>>>],
      [name |-> "technical", weight |-> <<6, 5>>,
       words |-> <<<<"a", "l", "g", "o", "r", "i", "t", "h", "m">>,
                  <<"p", "a", "r", "a", "m", "e", "t", "e", "r">>,
                  <<"e", "x", "e", "c", "u", "t", "e">>>>],
      [name |-> "empathetic", weight |-> <<11, 10>>,
       words |-> <<<<"u", "n", "d", "e", "r", "s", "t", "a", "n", "d">>,
                  <<"f", "e", "e", "l">>, <<"s", "u", "p", "p", "o", "r", "t">>>>]>>

\* detect_emotional_tone(text): the tone it stores in current_tone
DetectEmotionalTone(text) ==
    LET words == Range(AllTokens(text))
        Hits(t) == Cardinality({i \in 1..Len(t.words) : t.words[i] \in words})
        found == SelectSeq(EmotionalTones, LAMBDA t : Hits(t) > 0)
        scores == [i \in 1..Len(found) |->
                     [k |-> found[i].name, v |-> RMul(<<Hits(found[i]), 1>>, found[i].weight)]]
    IN  IF scores = <<>> THEN "neutral" ELSE FirstMaxKey(scores)

\* adapt_to_tone(predictions)
AdaptToTone(tone, predictions) ==
    IF tone = "neutral" THEN predictions
    ELSE LET data == CHOOSE t \in Range(EmotionalTones) : t.name = tone
             Adjusted(word, score) ==
                IF word \in Range(data.words) THEN RMul(score, data.weight) ELSE score
         IN  Rescore(predictions, Adjusted)

\* a creativity stage that returns only the words below 0.7
KeepBelowThreshold(predictions) ==
    SelectSeq(predictions, LAMBDA x : RLt(x.v, <<7, 10>>))

\* get_creative_predictions(words, base_predictions) with creativity_level 0.5
\* and creativity_boost 0.3
GetCreativePredictions(predictions) ==
    LET Creative(word, score) ==
            IF RLt(score, <<7, 10>>) THEN RMul(score, <<13, 10>>) ELSE score
    IN  Rescore(predictions, Creative)

\* the context, tone and creativity layers applied to the base predictions
EnhancedLayers(db, text, base, tone1) ==
    [ret |-> [kind |-> "pair",
              list |-> GetCreativePredictions(
                          AdaptToTone(tone1,
                              GetContextualPredictions(db, base.rel, text, base.ret.list))),
              ratio |-> base.ret.ratio],
     rel |-> base.rel, pat |-> base.pat, tone |-> tone1]

\* enhanced_predict_next after its call of predict_next: base is what that call
\* gave, which the method unpacks into two names
EnhancedFrom(db, tone, text, base) ==
    IF base.ret.kind = "list"
    THEN [ret |-> [kind |-> "raised", error |-> "ValueError"],
          rel |-> base.rel, pat |-> base.pat, tone |-> tone]
    ELSE IF base.ret.list = <<>>
    THEN [ret |-> base.ret, rel |-> base.rel, pat |-> base.pat, tone |-> tone]
    ELSE EnhancedLayers(db, text, base, DetectEmotionalTone(text))

\* enhanced_predict_next(text, mode): what it returns, or the exception it
\* raises, and the state it leaves. The only specialist domain is 'general' and
\* the default profile has no preferred words, so the domain and the
\* personalization layers return their input.
EnhancedPredictNextResult(db, rel, pat, g, tone, text, m) ==
    IF IsBlank(text)
    THEN [ret |-> [kind |-> "pair", list |-> <<>>, ratio |-> <<100, 1>>],
          rel |-> rel, pat |-> pat, tone |-> tone]
    ELSE EnhancedFrom(db, tone, text, PredictNextResult(db, rel, pat, g, text, m))

-----------------------------------------------------------------------------
(* Sentence generation *)

\* question_words.txt, answer_words.txt, fact_words.txt and theory_words.txt
\* as written on first run
QuestionWords ==
    {<<"?">>, <<"w", "h", "a", "t">>, <<"w", "h", "e", "n">>,
     <<"w", "h", "e", "r", "e">>, <<"w", "h", "y">>, <<"h", "o", "w">>,
     <<"w", "h", "i", "c", "h">>, <<"w", "h", "o">>}

AnswerWords ==
    {<<"b", "e", "c", "a", "u", "s", "e">>,
     <<"t", "h", "e", "r", "e", "f", "o", "r", "e">>, <<"t", "h", "u", "s">>,
     <<"s", "o">>, <<"h", "e", "n", "c", "e">>}

FactWords ==
    {<<"f", "a", "c", "t">>, <<"a", "c", "t", "u", "a", "l", "l", "y">>,
     <<"p", "r", "o", "v", "e", "n">>, <<"e", "v", "i", "d", "e", "n", "c", "e">>,
     <<"s", "t", "u", "d", "y">>, <<"r", "e", "s", "e", "a", "r", "c", "h">>}

TheoryWords ==
    {<<"t", "h", "e", "o", "r", "y">>,
     <<"h", "y", "p", "o", "t", "h", "e", "s", "i", "s">>, <<"m", "a", "y", "b", "e">>,
     <<"p", "e", "r", "h", "a", "p", "s">>, <<"p", "o", "s", "s", "i", "b", "l", "y">>,
     <<"c", "o", "u", "l", "d">>}

\* _detect_sentence_type(words)
DetectSentenceType(words) ==
    IF \E i \in 1..Len(words) : words[i] \in QuestionWords THEN "question"
    ELSE IF \E i \in 1..Len(words) : words[i] \in AnswerWords THEN "answer"
    ELSE IF \E i \in 1..Len(words) : words[i] \in FactWords THEN "fact"
    ELSE IF \E i \in 1..Len(words) : words[i] \in TheoryWords THEN "theory"
    ELSE "statement"

\* a compatibility test that accepts a flow weight of exactly 0.3
IsGrammaticallyCompatibleFrom(db, g, last_word, candidate) ==
    IF last_word = <<>> THEN TRUE
    ELSE LET cmap == ClassMap(Section(g, "flow_rules"), GetWordClass(db, last_word))
             cc == GetWordClass(db, candidate)
         IN  cc \in DOMAIN cmap /\ RLe(<<3, 10>>, cmap[cc])

\* _is_grammatically_compatible(last_word, candidate_word)
IsGrammaticallyCompatible(db, g, last_word, candidate) ==
    IF last_word = <<>> THEN TRUE
    ELSE LET cmap == ClassMap(Section(g, "flow_rules"), GetWordClass(db, last_word))
             cc == GetWordClass(db, candidate)
         IN  cc \in DOMAIN cmap /\ RLt(<<3, 10>>, cmap[cc])

\* sentence_order[len(input_words):], weighted 1/(i+1)
RECURSIVE OrderWeights(_, _, _)
OrderWeights(weights, order, i) ==
    IF order = <<>> THEN weights
    ELSE Strict(weights,
            OrderWeights(ScoreAdd(weights, Head(order), Rat(1, i)), Tail(order), i + 1))

RECURSIVE PredictionClassWeights(_, _, _)
PredictionClassWeights(weights, db, predictions) ==
    IF predictions = <<>> THEN weights
    ELSE Strict(weights, PredictionClassWeights(
            ScoreAdd(weights, GetWordClass(db, Head(predictions).k),
                     RMul(Head(predictions).v, <<1, 2>>)),
            db, Tail(predictions)))

\* _get_most_probable_classes(input_words, predictions)
GetMostProbableClasses(db, g, input_words, predictions) ==
    LET type == DetectSentenceType(input_words)
        orders == Section(g, "sentence_order")
        order == IF type \in DOMAIN orders THEN orders[type] ELSE <<"noun", "verb", "noun">>
        rest == SubSeq(order, Len(input_words) + 1, Len(order))
    IN  DKeys(SortDesc(PredictionClassWeights(OrderWeights(<<>>, rest, 1), db, predictions),
                       <<>>))

\* the candidates of _find_best_word_for_class with their total scores
BestCandidates(db, pat, g, predictions, class, existing) ==
    LET last_word == existing[Len(existing)]
        ok == SelectSeq(predictions,
                LAMBDA x : /\ GetWordClass(db, x.k) = class
                           /\ x.k \notin Range(existing)
                           /\ IsGrammaticallyCompatible(db, g, last_word, x.k))
    IN  [i \in 1..Len(ok) |->
            [k |-> ok[i].k,
             v |-> RAdd(ok[i].v, RMul(Strength(pat, last_word, "after", ok[i].k), <<3, 10>>))]]

\* the loop of generate_sentence over the expected classes
RECURSIVE ContinueByClass(_, _, _, _, _, _, _)
ContinueByClass(db, pat, g, maxw, predictions, classes, generated) ==
    IF classes = <<>> \/ Len(generated) >= maxw THEN [words |-> generated, pat |-> pat]
    ELSE LET cands == BestCandidates(db, pat, g, predictions, Head(classes), generated)
         IN  IF cands = <<>>
             THEN ContinueByClass(db, pat, g, maxw, predictions, Tail(classes), generated)
             ELSE Strict(<<pat, generated>>,
                    ContinueByClass(db, TouchBucket(pat, generated[Len(generated)], "after"), g,
                                    maxw, predictions, Tail(classes),
                                    Append(generated, FirstMaxKey(cands))))

\* the while loop of generate_sentence that fills up to min_words
RECURSIVE FillToMin(_, _, _, _, _)
FillToMin(db, g, minw, predictions, generated) ==
    IF ~(Len(generated) < minw /\ predictions # <<>>) THEN generated
    ELSE LET ok == SelectSeq(predictions,
                     LAMBDA x : /\ x.k \notin Range(generated)
                                /\ IsGrammaticallyCompatible(db, g, generated[Len(generated)], x.k))
         IN  IF ok = <<>> THEN generated
             ELSE Strict(generated,
                    FillToMin(db, g, minw, predictions, Append(generated, ok[1].k)))

\* a cut that keeps the last words instead of the first
CutFromFront(words, maxw) ==
    IF Len(words) > maxw THEN SubSeq(words, Len(words) - maxw + 1, Len(words)) ELSE words

\* the final check of generate_sentence: generated_words[:max_words]
CutToMax(words, maxw) ==
    IF Len(words) > maxw THEN SubSeq(words, 1, maxw) ELSE words

\* a finalizing that leaves the first word as it is
KeepCase(w) == w

\* str.capitalize() of a lower-case word
Capitalize(w) == [i \in 1..Len(w) |-> IF i = 1 THEN UpperChar(w[i]) ELSE w[i]]

\* generate_sentence(text, predictions): what it returns and the pattern index
\* its reads leave. A returned sentence is its words and the mark appended to
\* the last of them; with no word left it returns the text it was given.
GenerateSentenceResult(db, pat, g, minw, maxw, text, predictions) ==
    LET input_words == WordTokens(text) IN
    IF input_words = <<>> THEN [ret |-> [kind |-> "text", text |-> text], pat |-> pat]
    ELSE LET classes == GetMostProbableClasses(db, g, input_words, predictions)
             c == ContinueByClass(db, pat, g, maxw, predictions, classes, input_words)
             filled == FillToMin(db, g, minw, predictions, c.words)
             cut == CutToMax(filled, maxw)
         IN  IF cut = <<>> THEN [ret |-> [kind |-> "text", text |-> text], pat |-> c.pat]
             ELSE [ret |-> [kind |-> "sentence",
                            words |-> [cut EXCEPT ![1] = Capitalize(cut[1])],
                            mark |-> IF DetectSentenceType(input_words) = "question" THEN "?"
                                     ELSE IF Len(cut) >= 3 THEN "." ELSE ""],
                   pat |-> c.pat]

-----------------------------------------------------------------------------
(* A session with the constructed engine *)

MaxText == 2

MaxCalls == 1

MaxAnalyses == 1

\* an unknown word typed in upper case
wQ == <<"Q">>

\* the tokens a text is made of
TextTokens == {wa, wab, wQ, <<"?">>}

Texts == UNION {[1..n -> TextTokens] : n \in 0..MaxText}

Modes == {"simple", "complex"}

\* records of the sample dictionary the sessions start from: a noun with a
\* synonym outside the dictionary and a meaning in the technology field, a verb
\* with a synonym and an antonym, a noun with an antonym and an acronym
SampleNoun ==
    [kind |-> "record", class |-> "noun", word |-> wa, synonyms |-> <<wb>>,
     antonyms |-> <<>>, acronyms |-> <<>>, meaning |-> <<"electronic", "device">>,
     json_ok |-> TRUE]

SampleVerb ==
    [kind |-> "record", class |-> "verb", word |-> <<"A", "b">>, synonyms |-> <<wa>>,
     antonyms |-> <<wb>>, acronyms |-> <<>>, meaning |-> <<"plain">>, json_ok |-> TRUE]

SampleOther ==
    [kind |-> "record", class |-> "noun", word |-> wb, synonyms |-> <<>>,
     antonyms |-> <<wab>>, acronyms |-> <<wa>>, meaning |-> <<"study">>, json_ok |-> TRUE]

SampleBroken ==
    [kind |-> "record", class |-> "noun", word |-> wb, synonyms |-> <<>>,
     antonyms |-> <<>>, acronyms |-> <<>>, meaning |-> <<"plain">>, json_ok |-> FALSE]

\* the dictionary files the sessions are run with
SessionFeeds ==
    {<<>>, <<SampleNoun>>, <<SampleNoun, SampleVerb>>, <<SampleNoun, SampleVerb, SampleOther>>,
     <<SampleVerb, SampleNoun, SampleBroken>>}

\* import_dictionary over a whole file, from line i
RECURSIVE ImportFeed(_, _, _, _, _)
\* import_dictionary after line i gave r: the JSON error of a record ends the
\* import inside its try block
ImportFeedAfter(r, g, feed, i) ==
    IF r.status = "raised" THEN [db |-> r.db, rel |-> r.rel, pat |-> NoKeys]
    ELSE ImportFeed(r.db, r.rel, g, feed, i + 1)

ImportFeed(db, rel, g, feed, i) ==
    IF i > Len(feed) THEN FinishImport(db, rel, NoKeys, g, "speech")
    ELSE ImportFeedAfter(ImportLineStep(db, rel, g, feed[i]), g, feed, i)

\* the engine after __init__ and set_mode('formal', 'speech'), for one
\* dictionary file
InitSession ==
    \E feed \in SessionFeeds, g \in {LoadGrammarRules("formal", DefaultGrammar, DefaultCasual)} :
        \E r \in {ImportFeed(<<>>, NoKeys, g, feed, 1)} :
            /\ word_db = r.db
            /\ word_relationships = r.rel
            /\ pattern_relationships = r.pat
            /\ grammar_rules = g
            /\ mode = "formal"
            /\ operation_mode = "speech"
            /\ min_words = 3
            /\ max_words = 20
            /\ current_tone = "neutral"
            /\ pc = "ready"
            /\ nlines = Len(feed)
            /\ ncalls = 0
            /\ nanalyses = 0
            /\ last_line = NoLine
            /\ call = NoCall
            /\ pre_db = r.db
            /\ pre_relationships = r.rel
            /\ pre_patterns = r.pat
            /\ ret = NoRet

\* what every call records before it runs
Called(op, text, m) ==
    /\ pc = "ready"
    /\ call' = [op |-> op, text |-> text, mode |-> m]
    /\ pre_db' = word_db
    /\ pre_relationships' = word_relationships
    /\ pre_patterns' = pattern_relationships
    /\ UNCHANGED <<grammar_rules, mode, operation_mode, pc, nlines, last_line>>

\* analyze_patterns(sentence); operation_mode is never 'training', so the
\* position data of the entries is not updated
AnalyzePatternsUpTo(text, limit) ==
    /\ nanalyses < limit
    /\ nanalyses' = nanalyses + 1
    /\ Called("analyze_patterns", text, "none")
    /\ \E r \in {AnalyzeLoop(word_db, word_relationships, pattern_relationships,
                            grammar_rules, AllTokens(text), 1)} :
           /\ word_relationships' = r.rel
           /\ pattern_relationships' = r.pat
           /\ ret' = [kind |-> "analysis",
                      sentence_type |-> DetectSentenceType(AllTokens(text)),
                      known_words_ratio |-> CalculateKnownWordsRatio(word_db, AllTokens(text)),
                      main_topic |-> MainTopic(word_db, text)]
    /\ UNCHANGED <<word_db, min_words, max_words, current_tone, ncalls>>

AnalyzePatterns(text) == AnalyzePatternsUpTo(text, MaxAnalyses)

\* predict_next(text, mode)
PredictNext(text, m) ==
    /\ ncalls < MaxCalls
    /\ ncalls' = ncalls + 1
    /\ Called("predict_next", text, m)
    /\ \E r \in {PredictNextResult(word_db, word_relationships, pattern_relationships,
                                  grammar_rules, text, m)} :
           /\ word_relationships' = r.rel
           /\ pattern_relationships' = r.pat
           /\ ret' = r.ret
    /\ UNCHANGED <<word_db, min_words, max_words, current_tone, nanalyses>>

\* enhanced_predict_next(text, mode)
EnhancedPredictNext(text, m) ==
    /\ ncalls < MaxCalls
    /\ ncalls' = ncalls + 1
    /\ Called("enhanced_predict_next", text, m)
    /\ \E r \in {EnhancedPredictNextResult(word_db, word_relationships, pattern_relationships,
                                          grammar_rules, current_tone, text, m)} :
           /\ word_relationships' = r.rel
           /\ pattern_relationships' = r.pat
           /\ current_tone' = r.tone
           /\ ret' = r.ret
    /\ UNCHANGED <<word_db, min_words, max_words, nanalyses>>

NextPredict ==
    \/ \E text \in Texts : AnalyzePatterns(text)
    \/ \E text \in Texts, m \in Modes : PredictNext(text, m)
    \/ \E text \in Texts, m \in Modes : EnhancedPredictNext(text, m)

SpecPredict == InitSession /\ [][NextPredict]_vars

-----------------------------------------------------------------------------
(* A session that sets the word limits and generates sentences *)

MaxLimit == 2

\* the limit the constructor gives max_words
DefaultMaxWords == 20

\* a text one word longer than the default maximum
LongText == [i \in 1..(DefaultMaxWords + 1) |-> wa]

\* a question word, typed with a capital
wWhat == <<"W", "h", "a", "t">>

\* texts of at most two tokens that contain the question word
QuestionTexts ==
    {<<wWhat>>} \cup {<<wWhat, t>> : t \in TextTokens} \cup {<<t, wWhat>> : t \in TextTokens}

GenTexts == Texts \cup {LongText} \cup QuestionTexts

\* llm.min_words = int(...) of the --min<N> command: a plain assignment, the
\* setters written inside __init__ are local functions and never run. The
\* predictions of the previous message are gone by then.
SetMinWords(v) ==
    /\ pc = "ready"
    /\ min_words # v
    /\ min_words' = v
    /\ call' = [op |-> "set_min_words", value |-> v]
    /\ ret' = NoRet
    /\ UNCHANGED <<word_db, word_relationships, pattern_relationships, grammar_rules, mode,
                   operation_mode, max_words, current_tone, pc, nlines, ncalls, nanalyses,
                   last_line, pre_db, pre_relationships, pre_patterns>>

\* llm.max_words = int(...) of the --max<N> command
SetMaxWords(v) ==
    /\ pc = "ready"
    /\ max_words # v
    /\ max_words' = v
    /\ call' = [op |-> "set_max_words", value |-> v]
    /\ ret' = NoRet
    /\ UNCHANGED <<word_db, word_relationships, pattern_relationships, grammar_rules, mode,
                   operation_mode, min_words, current_tone, pc, nlines, ncalls, nanalyses,
                   last_line, pre_db, pre_relationships, pre_patterns>>

\* generate_sentence(text, predictions) with the ranked list the last
\* prediction call returned
GenerateSentence(text) ==
    /\ pc = "ready"
    /\ ret.kind = "pair"
    /\ call' = [op |-> "generate_sentence", text |-> text, mode |-> "none",
                predictions |-> ret.list, min_words |-> min_words, max_words |-> max_words]
    /\ \E r \in {GenerateSentenceResult(word_db, pattern_relationships, grammar_rules,
                                        min_words, max_words, text, ret.list)} :
           /\ pattern_relationships' = r.pat
           /\ ret' = r.ret
    /\ pre_db' = word_db
    /\ pre_relationships' = word_relationships
    /\ pre_patterns' = pattern_relationships
    /\ UNCHANGED <<word_db, word_relationships, grammar_rules, mode, operation_mode,
                   min_words, max_words, current_tone, pc, nlines, ncalls, nanalyses,
                   last_line>>

NextGen ==
    \/ \E v \in 0..MaxLimit : SetMinWords(v)
    \/ \E v \in 0..MaxLimit : SetMaxWords(v)
    \/ \E text \in Texts, m \in Modes : EnhancedPredictNext(text, m)
    \/ \E text \in GenTexts : GenerateSentence(text)

SpecGen == InitSession /\ [][NextGen]_vars

-----------------------------------------------------------------------------
(* A session that looks words up *)

\* words to look up: stored ones, words with one or two stored prefixes, a word
\* that starts with a digit, a capitalized one and one with no stored prefix
ProbeWords ==
    {wa, wab, wb, <<"a", "b", "b">>, <<"b", "a">>, <<"1", "a">>, <<"A", "b">>, <<"q">>}

\* _get_word_class(word)
GetWordClassOf(word) ==
    /\ pc = "ready"
    /\ call' = [op |-> "get_word_class", word |-> word]
    /\ ret' = [kind |-> "class", class |-> GetWordClass(word_db, word)]
    /\ pre_db' = word_db
    /\ pre_relationships' = word_relationships
    /\ pre_patterns' = pattern_relationships
    /\ UNCHANGED <<word_db, word_relationships, pattern_relationships, grammar_rules, mode,
                   operation_mode, min_words, max_words, current_tone, pc, nlines, ncalls,
                   nanalyses, last_line>>

\* _calculate_known_words_ratio(words) on the tokens of a text
KnownWordsRatioOf(text) ==
    /\ pc = "ready"
    /\ call' = [op |-> "known_words_ratio", text |-> text]
    /\ ret' = [kind |-> "ratio", ratio |-> CalculateKnownWordsRatio(word_db, AllTokens(text))]
    /\ pre_db' = word_db
    /\ pre_relationships' = word_relationships
    /\ pre_patterns' = pattern_relationships
    /\ UNCHANGED <<word_db, word_relationships, pattern_relationships, grammar_rules, mode,
                   operation_mode, min_words, max_words, current_tone, pc, nlines, ncalls,
                   nanalyses, last_line>>

NextLookup ==
    \/ \E word \in ProbeWords : GetWordClassOf(word)
    \/ \E text \in Texts : KnownWordsRatioOf(text)

SpecLookup == InitSession /\ [][NextLookup]_vars

-----------------------------------------------------------------------------
(* A session that changes the mode *)

\* what grammar_flow_casual.json may hold when it is read: the empty overlay
\* written on first run, an overlay that gives one class of flow_rules a new
\* weight, one that replaces a template and brings a section of its own, and
\* one that adds a class to compatibility_rules
CasualOverlays ==
    {EmptyDict,
     [flow_rules |-> [noun |-> [adjective |-> <<1, 2>>]]],
     [sentence_order |-> [command |-> <<"verb">>], slang |-> [noun |-> <<"thing">>]],
     [compatibility_rules |-> [pronoun |-> [verb |-> <<1, 2>>]]]}

\* a configuration file at the time it is opened: absent, or present with rules
ConfigFiles(contents) ==
    {[present |-> FALSE, rules |-> EmptyDict]} \cup
    {[present |-> TRUE, rules |-> c] : c \in contents}

\* the operation modes main passes to set_mode
OperationModes == {"speech", "file_training", "speech_training"}

\* _load_grammar_rules with the two files as they are found: open() of an
\* absent file raises FileNotFoundError and leaves grammar_rules as it was
LoadGrammarRulesFrom(m, formal, casual, current) ==
    IF ~formal.present THEN [raised |-> TRUE, rules |-> current]
    ELSE IF m = "formal" THEN [raised |-> FALSE, rules |-> formal.rules]
    ELSE IF ~casual.present THEN [raised |-> TRUE, rules |-> current]
    ELSE [raised |-> FALSE, rules |-> LoadGrammarRules(m, formal.rules, casual.rules)]

\* set_mode(mode, operation_mode): both attributes are assigned, then the
\* configuration files are loaded again
SetMode(m, op_mode, formal, casual) ==
    /\ pc = "ready"
    /\ mode' = m
    /\ operation_mode' = op_mode
    /\ call' = [op |-> "set_mode", mode |-> m, operation_mode |-> op_mode,
                formal |-> formal, casual |-> casual]
    /\ \E r \in {LoadGrammarRulesFrom(m, formal, casual, grammar_rules)} :
          /\ grammar_rules' = r.rules
          /\ ret' = IF r.raised THEN [kind |-> "raised", error |-> "FileNotFoundError"]
                    ELSE [kind |-> "done"]
    /\ pre_db' = word_db
    /\ pre_relationships' = word_relationships
    /\ pre_patterns' = pattern_relationships
    /\ UNCHANGED <<word_db, word_relationships, pattern_relationships, min_words, max_words,
                   current_tone, pc, nlines, ncalls, nanalyses, last_line>>

NextMode ==
    \E m \in {"formal", "casual"}, op_mode \in OperationModes,
       formal \in ConfigFiles({DefaultGrammar}), casual \in ConfigFiles(CasualOverlays) :
        SetMode(m, op_mode, formal, casual)

SpecMode == InitSession /\ [][NextMode]_vars

-----------------------------------------------------------------------------
(* A session that imports again and trains *)

\* records of the dictionary files imported again: a chain of synonyms
\* ab -> a -> b of nouns, with meanings in the art and news fields, and a word
\* of unknown class that a verb names as its synonym
wc == <<"c">>

TrainHead ==
    [kind |-> "record", class |-> "noun", word |-> wab, synonyms |-> <<wa>>,
     antonyms |-> <<>>, acronyms |-> <<>>, meaning |-> <<"plain">>, json_ok |-> TRUE]

TrainMiddle ==
    [kind |-> "record", class |-> "noun", word |-> wa, synonyms |-> <<wb>>,
     antonyms |-> <<>>, acronyms |-> <<>>, meaning |-> <<"news", "paint">>, json_ok |-> TRUE]

TrainTail ==
    [kind |-> "record", class |-> "noun", word |-> wb, synonyms |-> <<>>,
     antonyms |-> <<wc>>, acronyms |-> <<>>, meaning |-> <<"news">>, json_ok |-> TRUE]

TrainUnknown ==
    [kind |-> "record", class |-> "unknown", word |-> wc, synonyms |-> <<>>,
     antonyms |-> <<wa>>, acronyms |-> <<>>, meaning |-> <<"plain">>, json_ok |-> TRUE]

TrainVerb ==
    [kind |-> "record", class |-> "verb", word |-> <<"c", "a">>, synonyms |-> <<wc>>,
     antonyms |-> <<>>, acronyms |-> <<>>, meaning |-> <<"plain">>, json_ok |-> TRUE]

TrainLink ==
    [kind |-> "record", class |-> "noun", word |-> wb, synonyms |-> <<wc>>,
     antonyms |-> <<wa>>, acronyms |-> <<>>, meaning |-> <<"plain">>, json_ok |-> TRUE]

TrainPronoun ==
    [kind |-> "record", class |-> "pronoun", word |-> <<"c", "a">>, synonyms |-> <<wc>>,
     antonyms |-> <<>>, acronyms |-> <<>>, meaning |-> <<"plain">>, json_ok |-> TRUE]

TrainFeeds ==
    {<<TrainHead, TrainMiddle, TrainTail>>,
     <<TrainUnknown, TrainVerb>>,
     <<TrainUnknown, TrainPronoun>>,
     <<TrainTail, SampleBroken, TrainHead>>,
     <<TrainMiddle, TrainLink, TrainHead>>}

\* the operation mode import_dictionary tests for, beside the ones main passes
TrainOperationModes == OperationModes \cup {"training"}

\* the loop of import_dictionary over the lines of a file, from line i
RECURSIVE ImportRecords(_, _, _, _, _)
ImportRecordsAfter(r, g, feed, i) ==
    IF r.status = "raised" THEN [db |-> r.db, rel |-> r.rel, status |-> "raised"]
    ELSE ImportRecords(r.db, r.rel, g, feed, i + 1)

ImportRecords(db, rel, g, feed, i) ==
    IF i > Len(feed) THEN [db |-> db, rel |-> rel, status |-> "finished"]
    ELSE ImportRecordsAfter(ImportLineStep(db, rel, g, feed[i]), g, feed, i)

\* what every step of the training session records
Stepped(op) ==
    /\ call' = [op |-> op]
    /\ pre_db' = word_db
    /\ pre_relationships' = word_relationships
    /\ pre_patterns' = pattern_relationships
    /\ UNCHANGED <<grammar_rules, mode, operation_mode, min_words, max_words, current_tone,
                   nlines, ncalls, nanalyses, last_line>>

\* import_dictionary(file_path) on the constructed engine, up to the test of
\* the operation mode: the records, then the pseudo-words; a JSON error ends
\* it in the except branch
ImportDictionary(feed) ==
    /\ pc = "ready"
    /\ Stepped("import_dictionary")
    /\ \E r \in {ImportRecords(word_db, word_relationships, grammar_rules, feed, 1)} :
          /\ word_db' = IF r.status = "raised" THEN r.db ELSE AddPunctuationAndNumbers(r.db)
          /\ word_relationships' = r.rel
          /\ pc' = IF r.status = "finished" /\ operation_mode = "training"
                   THEN "bridge_synonyms" ELSE "ready"
          /\ ret' = [kind |-> "import", status |-> r.status]
    /\ UNCHANGED pattern_relationships

\* the training processes of import_dictionary, in the order of lines 313-316
BridgeSynonyms ==
    /\ pc = "bridge_synonyms"
    /\ Stepped("_bridge_synonyms")
    /\ \E r \in {Bridge(word_db, word_relationships, "synonyms", <<2, 1>>, 1)} :
          /\ word_db' = r.db
          /\ word_relationships' = r.rel
    /\ pc' = "bridge_antonyms"
    /\ ret' = [kind |-> "done"]
    /\ UNCHANGED pattern_relationships

BridgeAntonyms ==
    /\ pc = "bridge_antonyms"
    /\ Stepped("_bridge_antonyms")
    /\ \E r \in {Bridge(word_db, word_relationships, "antonyms", <<-3, 2>>, 1)} :
          /\ word_db' = r.db
          /\ word_relationships' = r.rel
    /\ pc' = "bridge_experts"
    /\ ret' = [kind |-> "done"]
    /\ UNCHANGED pattern_relationships

BridgeExpertFields ==
    /\ pc = "bridge_experts"
    /\ Stepped("_bridge_experts")
    /\ word_db' = BridgeExperts(word_db, 1)
    /\ pc' = "infer_classes"
    /\ ret' = [kind |-> "done"]
    /\ UNCHANGED <<word_relationships, pattern_relationships>>

InferClasses ==
    /\ pc = "infer_classes"
    /\ Stepped("_infer_unknown_word_classes")
    /\ \E r \in {InferUnknownWordClasses(word_db, pattern_relationships, grammar_rules, 1)} :
          /\ word_db' = r.db
          /\ pattern_relationships' = r.pat
    /\ pc' = "ready"
    /\ ret' = [kind |-> "import", status |-> "trained"]
    /\ UNCHANGED word_relationships

NextTrain ==
    \/ \E m \in {"formal", "casual"}, op_mode \in TrainOperationModes :
          SetMode(m, op_mode, [present |-> TRUE, rules |-> DefaultGrammar],
                  [present |-> TRUE, rules |-> EmptyDict])
    \/ \E feed \in TrainFeeds : ImportDictionary(feed)
    \/ BridgeSynonyms
    \/ BridgeAntonyms
    \/ BridgeExpertFields
    \/ InferClasses

SpecTrain == InitSession /\ [][NextTrain]_vars

-----------------------------------------------------------------------------
(* A session that analyses, predicts, generates and changes the mode *)

MaxIndexAnalyses == 2

\* the sentences typed in this session
IndexTexts == {<<wa, wab>>, <<wab, wa>>, <<wa, wQ>>}

\* a casual overlay that makes nouns incompatible with what follows them
NegativeOverlay ==
    [compatibility_rules |-> [noun |-> [verb |-> <<-50, 1>>, noun |-> <<-50, 1>>]]]

NextIndex ==
    \/ \E text \in IndexTexts : AnalyzePatternsUpTo(text, MaxIndexAnalyses)
    \/ \E text \in IndexTexts, m \in Modes : PredictNext(text, m)
    \/ \E text \in IndexTexts, m \in Modes : EnhancedPredictNext(text, m)
    \/ \E text \in IndexTexts : GenerateSentence(text)
    \/ \E m \in {"formal", "casual"}, casual \in {EmptyDict, NegativeOverlay} :
          SetMode(m, "speech", [present |-> TRUE, rules |-> DefaultGrammar],
                  [present |-> TRUE, rules |-> casual])

SpecIndex == InitSession /\ [][NextIndex]_vars

-----------------------------------------------------------------------------
(* The speech loop of main, with the loops of a reply as steps *)

\* a minimum larger than the number of predictions a call returns
LargeMinWords == 12

\* the messages typed in the speech session: the texts of at most two tokens
\* and three-token messages that end in a known or an unknown word
SpeechTexts ==
    (Texts \ {<<>>}) \cup {<<wab, wa, wQ>>, <<wQ, wab, wa>>, <<wa, wab, wa>>}

\* the for loop without the test 'word not in generated_words'
FillCandidatesRepeating(db, g, predictions, generated) ==
    SelectSeq(predictions,
        LAMBDA x : IsGrammaticallyCompatible(db, g, generated[Len(generated)], x.k))

\* the predictions the for loop of the backfilling accepts, in ranked order
FillCandidates(db, g, predictions, generated) ==
    SelectSeq(predictions,
        LAMBDA x : /\ x.k \notin Range(generated)
                   /\ IsGrammaticallyCompatible(db, g, generated[Len(generated)], x.k))

\* the condition of the while loop of generate_sentence
FillCondition(minw, predictions, generated) ==
    Len(generated) < minw /\ predictions # <<>>

\* generate_sentence after its while loop: the cut to max_words and the
\* finalizing, or the text itself when no word is left
FinishSentence(text, input_words, filled, maxw) ==
    LET cut == CutToMax(filled, maxw)
    IN  IF cut = <<>> THEN [kind |-> "text", text |-> text]
        ELSE [kind |-> "sentence",
              words |-> [cut EXCEPT ![1] = Capitalize(cut[1])],
              mark |-> IF DetectSentenceType(input_words) = "question" THEN "?"
                       ELSE IF Len(cut) >= 3 THEN "." ELSE ""]

\* generated_sentence.split(): the words of the sentence with the mark on the
\* last of them, or the raw tokens of the text
SplitSentence(sentence) ==
    IF sentence.kind = "text" THEN sentence.text
    ELSE IF sentence.mark = "" THEN sentence.words
    ELSE [sentence.words EXCEPT ![Len(sentence.words)] = Append(@, sentence.mark)]

\* main after generate_sentence returned: words = generated_sentence.split()
\* and the cut to max_words, which rewrites the sentence with a full stop
StartPadding(sentence, maxw) ==
    LET words == SplitSentence(sentence)
    IN  IF Len(words) > maxw
        THEN [kind |-> "padding", words |-> SubSeq(words, 1, maxw),
              sentence |-> [words |-> SubSeq(words, 1, maxw), mark |-> "."]]
        ELSE [kind |-> "padding", words |-> words,
              sentence |-> [words |-> words, mark |-> ""]]

\* generate_sentence up to its while loop, for a message with predictions
StartGeneration(db, pat, g, maxw, text, predictions) ==
    LET input_words == WordTokens(text) IN
    IF input_words = <<>>
    THEN [pc |-> "padding", pat |-> pat,
          ret |-> StartPadding([kind |-> "text", text |-> text], maxw)]
    ELSE LET c == ContinueByClass(db, pat, g, maxw, predictions,
                      GetMostProbableClasses(db, g, input_words, predictions), input_words)
         IN  [pc |-> "backfilling", pat |-> c.pat,
              ret |-> [kind |-> "filling", words |-> c.words, iterations |-> 0]]

\* what main does with the result of enhanced_predict_next
AfterPrediction(db, g, maxw, text, r) ==
    IF r.ret.kind # "pair" THEN [pc |-> "ready", pat |-> r.pat, ret |-> r.ret]
    ELSE IF RLt(r.ret.ratio, <<50, 1>>)
    THEN [pc |-> "ready", pat |-> r.pat, ret |-> [kind |-> "rephrase", ratio |-> r.ret.ratio]]
    ELSE IF r.ret.list = <<>>
    THEN [pc |-> "ready", pat |-> r.pat, ret |-> [kind |-> "more_context"]]
    ELSE StartGeneration(db, r.pat, g, maxw, text, r.ret.list)

\* a message typed in the speech loop: enhanced_predict_next(user_input,
\* 'complex'), the two replies without a sentence, and generate_sentence up to
\* its while loop
Utterance(text) ==
    /\ pc = "ready"
    /\ ncalls < MaxCalls
    /\ ncalls' = ncalls + 1
    /\ \E r \in {EnhancedPredictNextResult(word_db, word_relationships, pattern_relationships,
                                          grammar_rules, current_tone, text, "complex")} :
        \E s \in {AfterPrediction(word_db, grammar_rules, max_words, text, r)} :
           /\ word_relationships' = r.rel
           /\ pattern_relationships' = s.pat
           /\ current_tone' = r.tone
           /\ pc' = s.pc
           /\ ret' = s.ret
           /\ call' = [op |-> "speech", text |-> text, mode |-> "complex",
                       predictions |-> IF r.ret.kind = "pair" THEN r.ret.list ELSE <<>>,
                       min_words |-> min_words, max_words |-> max_words]
    /\ pre_db' = word_db
    /\ pre_relationships' = word_relationships
    /\ pre_patterns' = pattern_relationships
    /\ UNCHANGED <<word_db, grammar_rules, mode, operation_mode, min_words, max_words,
                   nlines, nanalyses, last_line>>

\* one iteration of the while loop of generate_sentence that appends a word
FillStep ==
    /\ pc = "backfilling"
    /\ FillCondition(min_words, call.predictions, ret.words)
    /\ \E ok \in {FillCandidates(word_db, grammar_rules, call.predictions, ret.words)} :
           /\ ok # <<>>
           /\ ret' = [ret EXCEPT !.words = Append(@, ok[1].k), !.iterations = @ + 1]
    /\ UNCHANGED <<word_db, word_relationships, pattern_relationships, grammar_rules, mode,
                   operation_mode, min_words, max_words, current_tone, pc, nlines, ncalls,
                   nanalyses, last_line, call, pre_db, pre_relationships, pre_patterns>>

\* the end of the while loop (its condition fails, or the for loop found no
\* word and its else branch breaks), the rest of generate_sentence and the
\* split of the sentence in main
FillExit ==
    /\ pc = "backfilling"
    /\ \/ ~FillCondition(min_words, call.predictions, ret.words)
       \/ FillCandidates(word_db, grammar_rules, call.predictions, ret.words) = <<>>
    /\ pc' = "padding"
    /\ ret' = StartPadding(FinishSentence(call.text, WordTokens(call.text), ret.words,
                                          max_words), max_words)
    /\ UNCHANGED <<word_db, word_relationships, pattern_relationships, grammar_rules, mode,
                   operation_mode, min_words, max_words, current_tone, nlines, ncalls,
                   nanalyses, last_line, call, pre_db, pre_relationships, pre_patterns>>

\* the condition of the while loop of main that pads to min_words
PadCondition(minw, predictions, words) ==
    Len(words) < minw /\ Len(predictions) > Len(words)

\* one iteration of that loop: predictions[len(words)][0] is appended when it
\* is not in words, and nothing changes when it is
PadStep ==
    /\ pc = "padding"
    /\ PadCondition(min_words, call.predictions, ret.words)
    /\ \E next_word \in {call.predictions[Len(ret.words) + 1].k} :
           ret' = IF next_word \notin Range(ret.words)
                  THEN [ret EXCEPT !.words = Append(@, next_word),
                                   !.sentence = [words |-> Append(ret.words, next_word),
                                                 mark |-> "."]]
                  ELSE ret
    /\ UNCHANGED <<word_db, word_relationships, pattern_relationships, grammar_rules, mode,
                   operation_mode, min_words, max_words, current_tone, pc, nlines, ncalls,
                   nanalyses, last_line, call, pre_db, pre_relationships, pre_patterns>>

\* the end of that loop: the sentence is printed and the next message is read
PadExit ==
    /\ pc = "padding"
    /\ ~PadCondition(min_words, call.predictions, ret.words)
    /\ pc' = "ready"
    /\ ret' = [kind |-> "reply", sentence |-> ret.sentence]
    /\ UNCHANGED <<word_db, word_relationships, pattern_relationships, grammar_rules, mode,
                   operation_mode, min_words, max_words, current_tone, nlines, ncalls,
                   nanalyses, last_line, call, pre_db, pre_relationships, pre_patterns>>

\* a casual overlay whose flow_rules give a noun a verb at exactly 0.3, a noun
\* at 0.4 and punctuation at 0.2
WeakFlowOverlay ==
    [flow_rules |-> [noun |-> [verb |-> <<3, 10>>, noun |-> <<2, 5>>,
                               punctuation |-> <<1, 5>>]]]

NextSpeech ==
    \/ \E m \in {"formal", "casual"} :
          SetMode(m, "speech", [present |-> TRUE, rules |-> DefaultGrammar],
                  [present |-> TRUE, rules |-> WeakFlowOverlay])
    \/ \E v \in (0..MaxLimit) \cup {LargeMinWords} : SetMinWords(v)
    \/ \E v \in 0..MaxLimit : SetMaxWords(v)
    \/ \E text \in SpeechTexts : Utterance(text)
    \/ FillStep
    \/ FillExit
    \/ PadStep
    \/ PadExit

SpecSpeech == InitSession /\ [][NextSpeech]_vars

\* the loops run in the one thread of main: a step that can be taken is taken
SpecSpeechFair ==
    SpecSpeech /\ WF_vars(FillStep) /\ WF_vars(FillExit) /\ WF_vars(PadStep) /\ WF_vars(PadExit)

-----------------------------------------------------------------------------
(* Claims about import *)

Count(list, x) == Cardinality({i \in 1..Len(list) : list[i] = x})

IsProperPrefix(p, w) == Len(p) < Len(w) /\ Prefix(w, Len(p)) = p

LowerAll(list) == [i \in 1..Len(list) |-> ToLower(list[i])]

\* the last import step stored a new entry
LastImported == ret.kind = "import" /\ ret.status = "imported"

NoPriorEdge(w1, w2) ==
    ~HasEdge(pre_relationships, w1, w2) /\ ~HasEdge(pre_relationships, w2, w1)

BothWeights(w1, w2, x) ==
    Weight(word_relationships, w1, w2) = x /\ Weight(word_relationships, w2, w1) = x

\* class c2 is listed in common_pairs for class c1
CommonPair(c1, c2) ==
    /\ c1 \in DOMAIN Section(grammar_rules, "common_pairs")
    /\ c2 \in Range(Section(grammar_rules, "common_pairs")[c1])

\* the synonym rule is the only import rule that applies to the record's word
\* w1 and its declared synonym w2
OnlySynonymRule(w1, w2) ==
    /\ w2 # w1
    /\ Count(LowerAll(last_line.synonyms), w2) = 1
    /\ w2 \notin Range(LowerAll(last_line.antonyms))
    /\ w2 \notin Range(LowerAll(last_line.acronyms))
    /\ InDb(pre_db, w2) =>
          /\ ~IsProperPrefix(w2, w1)
          /\ ~CommonPair(last_line.class, DGet(pre_db, w2).class)

\* C1 as stated: every synonym a record declares has weight exactly 2.0 in both
\* directions right after the import of the record, when no edge between the two
\* words existed before.
C1_SynonymWeightAlways ==
    LastImported =>
        \A w2 \in Range(LowerAll(last_line.synonyms)) :
            NoPriorEdge(ToLower(last_line.word), w2)
                => BothWeights(ToLower(last_line.word), w2, <<2, 1>>)

\* C1 amended: right after the import of a record of w1, a declared synonym w2
\* with no prior edge has weight exactly 2.0 in both directions provided no other
\* import rule adds to the pair: w2 differs from w1, is listed once among the
\* synonyms and not among the antonyms or acronyms of the record, and is not a
\* stored word that is a proper prefix of w1 or whose class is a common pair of
\* w1's class.
C1_SynonymWeight ==
    LastImported =>
        \A w2 \in Range(LowerAll(last_line.synonyms)) :
            (NoPriorEdge(ToLower(last_line.word), w2) /\ OnlySynonymRule(ToLower(last_line.word), w2))
                => BothWeights(ToLower(last_line.word), w2, <<2, 1>>)

\* a record was imported whose synonym was already stored, and only the synonym
\* rule applied to the pair
C1_Witness ==
    /\ LastImported
    /\ \E w2 \in Range(LowerAll(last_line.synonyms)) :
          /\ NoPriorEdge(ToLower(last_line.word), w2)
          /\ OnlySynonymRule(ToLower(last_line.word), w2)
          /\ InDb(pre_db, w2)

\* the antonym rule is the only import rule that applied to the stored word w1
\* and its declared antonym w2
OnlyAntonymRule(w1, w2) ==
    LET d1 == DGet(word_db, w1) IN
    /\ w2 # w1
    /\ Count(d1.antonyms, w2) = 1
    /\ w2 \notin Range(d1.synonyms)
    /\ w2 \notin Range(d1.acronyms)
    /\ InDb(word_db, w2) =>
          LET d2 == DGet(word_db, w2) IN
          /\ w1 \notin Range(d2.synonyms) \cup Range(d2.antonyms) \cup Range(d2.acronyms)
          /\ ~IsProperPrefix(w1, w2) /\ ~IsProperPrefix(w2, w1)
          /\ ~CommonPair(d1.class, d2.class) /\ ~CommonPair(d2.class, d1.class)

ImportFinished == ret.kind = "import" /\ ret.status = "finished"

\* C2 as stated: after the import of the feed, every antonym a record declares
\* has weight exactly -1.5 in both directions, for every feed.
C2_AntonymWeightAlways ==
    ImportFinished =>
        \A i \in 1..Len(word_db) : \A w2 \in Range(word_db[i].v.antonyms) :
            BothWeights(word_db[i].k, w2, <<-3, 2>>)

\* C2 amended: after the import of the feed (and at every point of it), an
\* antonym w2 declared by the record of w1 has weight exactly -1.5 in both
\* directions provided no other declaration or rule adds to the pair: w2 differs
\* from w1, is listed once among w1's antonyms and not among its synonyms or
\* acronyms, and, when w2 is stored too, its record does not name w1, neither
\* word is a proper prefix of the other and neither class is a common pair of
\* the other's.
C2_AntonymWeight ==
    \A i \in 1..Len(word_db) : \A w2 \in Range(word_db[i].v.antonyms) :
        OnlyAntonymRule(word_db[i].k, w2) => BothWeights(word_db[i].k, w2, <<-3, 2>>)

\* the feed is imported, and it holds two stored words one of which declares the
\* other as its antonym, with no other rule on the pair
C2_Witness ==
    /\ ImportFinished
    /\ \E i \in 1..Len(word_db) : \E w2 \in Range(word_db[i].v.antonyms) :
          OnlyAntonymRule(word_db[i].k, w2) /\ InDb(word_db, w2)

\* the last import step read a record whose lower-cased word was already a key
ReimportedKnownWord ==
    /\ ret.kind = "import"
    /\ last_line.kind = "record"
    /\ InDb(pre_db, ToLower(last_line.word))

\* C3: importing a record whose lower-cased word is already a key changes neither
\* the lexicon store nor any weight of the relationship graph.
C3_ReimportNoOp ==
    ReimportedKnownWord =>
        /\ word_db = pre_db
        /\ word_relationships = pre_relationships

\* a conflicting record was read for a stored word that it spells in another case
C3_Witness ==
    /\ ReimportedKnownWord
    /\ last_line.word # ToLower(last_line.word)
    /\ last_line.class # DGet(pre_db, ToLower(last_line.word)).class
    /\ last_line.meaning # DGet(pre_db, ToLower(last_line.word)).meaning
    /\ last_line.synonyms # DGet(pre_db, ToLower(last_line.word)).synonyms

-----------------------------------------------------------------------------
(* Claims about prediction *)

\* predict_next has just returned a ranked list with a ratio
PredictReturned == call.op = "predict_next" /\ ret.kind = "pair"

\* the scores predict_next computed for its call, in the order the candidates
\* were first given a score
CallScores ==
    LET words == WordTokens(call.text) IN
    IF call.mode = "simple"
    THEN SimpleScores(pre_db, pre_relationships, pre_patterns, grammar_rules, words)
    ELSE ComplexPrediction(pre_db, pre_relationships, pre_patterns, grammar_rules, words).scores

PositiveScores == SelectSeq(CallScores, LAMBDA x : RPos(x.v))

\* the place of candidate w in a list of scores, 0 when it has none
PlaceOf(scores, w) ==
    IF \E i \in 1..Len(scores) : scores[i].k = w
    THEN CHOOSE i \in 1..Len(scores) : scores[i].k = w
    ELSE 0

\* C4 as stated: the list predict_next returns is sorted strictly descending by
\* score, no two consecutive entries having the same score, and every returned
\* score is greater than 0.
C4_StrictlyDescending ==
    PredictReturned =>
        /\ \A i \in 1..(Len(ret.list) - 1) : RLt(ret.list[i + 1].v, ret.list[i].v)
        /\ \A i \in 1..Len(ret.list) : RPos(ret.list[i].v)

\* C4 amended: the list predict_next returns is sorted by score in descending
\* order, equal scores being allowed next to each other, and every returned score
\* is greater than 0.
C4_Descending ==
    PredictReturned =>
        /\ \A i \in 1..(Len(ret.list) - 1) : RLe(ret.list[i + 1].v, ret.list[i].v)
        /\ \A i \in 1..Len(ret.list) : RPos(ret.list[i].v)

\* predict_next returned a list in which the score drops at one place and two
\* consecutive entries have the same score at another
C4_Witness ==
    /\ PredictReturned
    /\ \E i \in 1..(Len(ret.list) - 1) : ret.list[i + 1].v = ret.list[i].v
    /\ \E i \in 1..(Len(ret.list) - 1) : RLt(ret.list[i + 1].v, ret.list[i].v)

\* C5: the list predict_next returns has at most 10 entries; it holds all the
\* positively scored candidates when there are at most 10 of them and 10 of them
\* otherwise; no candidate left out has a higher score than a returned one, and
\* among candidates of equal score the one that was given a score first comes
\* first (and is the one returned when only one of them fits).
C5_TopTen ==
    PredictReturned =>
        LET L == ret.list
            P == PositiveScores
            at(w) == PlaceOf(P, w)
        IN  /\ Len(L) <= 10
            /\ Len(L) = IF Len(P) < 10 THEN Len(P) ELSE 10
            /\ \A i \in 1..Len(L) : at(L[i].k) > 0 /\ P[at(L[i].k)] = L[i]
            /\ \A i, j \in 1..Len(L) :
                  i < j => \/ RLt(L[j].v, L[i].v)
                           \/ L[j].v = L[i].v /\ at(L[i].k) < at(L[j].k)
            /\ \A j \in 1..Len(P) :
                  P[j].k \notin Range(DKeys(L)) =>
                      \A i \in 1..Len(L) :
                          \/ RLt(P[j].v, L[i].v)
                          \/ P[j].v = L[i].v /\ at(L[i].k) < j

\* predict_next returned 10 entries out of more than 10 positively scored
\* candidates, two returned entries have the same score, and a candidate left
\* out has the score of the last returned one
C5_Witness ==
    /\ PredictReturned
    /\ Len(PositiveScores) > 10
    /\ Len(ret.list) = 10
    /\ \E i \in 1..9 : ret.list[i].v = ret.list[i + 1].v
    /\ \E j \in 1..Len(PositiveScores) :
          /\ PositiveScores[j].k \notin Range(DKeys(ret.list))
          /\ PositiveScores[j].v = ret.list[10].v

\* C6 as stated: the ratio that predict_next and enhanced_predict_next return
\* with the ranked list is 100 * known / counted over the non-punctuation tokens
\* of the text, where a token is known when its class is not "unknown"; it is 0
\* when no token is counted, in particular for an empty text, and lies in
\* [0, 100].
C6_ReturnedRatio ==
    (call.op \in {"predict_next", "enhanced_predict_next"} /\ ret.kind = "pair") =>
        LET counted == SelectSeq(AllTokens(call.text), LAMBDA w : ~InPunctuation(w))
            known == SelectSeq(counted, LAMBDA w : GetWordClass(pre_db, w) # "unknown")
        IN  /\ RLe(Zero, ret.ratio) /\ RLe(ret.ratio, <<100, 1>>)
            /\ Len(counted) = 0 => ret.ratio = Zero
            /\ Len(counted) > 0 => ret.ratio = Rat(100 * Len(known), Len(counted))

\* C7 as stated: for a text with no word token predict_next and
\* enhanced_predict_next complete without raising and return the pair of an
\* empty list and a ratio, and generate_sentence returns the text it was given.
C7_NoWordTokens ==
    /\ (call.op \in {"predict_next", "enhanced_predict_next"}
            /\ WordTokens(call.text) = <<>>)
          => ret.kind = "pair" /\ ret.list = <<>>
    /\ (call.op = "generate_sentence" /\ WordTokens(call.text) = <<>>)
          => ret.kind = "text" /\ ret.text = call.text

-----------------------------------------------------------------------------
(* Claims about sentence generation *)

\* generate_sentence has returned; call holds its arguments and the limits it ran with
Generated == call.op = "generate_sentence"

\* the whitespace-separated tokens of what generate_sentence returned (the
\* closing mark is attached to the last word)
ResultTokens == IF ret.kind = "sentence" THEN ret.words ELSE ret.text

Smaller(a, b) == IF a < b THEN a ELSE b

\* C8 as stated: the sentence generate_sentence returns has at least as many
\* tokens as the input text had word tokens.
C8_KeepsInputLength ==
    Generated => Len(ResultTokens) >= Len(WordTokens(call.text))

\* C8 amended: the sentence generate_sentence returns has at least
\* min(n, max_words) tokens, n being the number of word tokens of the input text,
\* and it starts with the first min(n, max_words) word tokens of the input in
\* their order, the first of them capitalized.
C8_KeepsInputUpToMax ==
    Generated =>
        LET input_words == WordTokens(call.text)
            k == Smaller(Len(input_words), call.max_words)
        IN  /\ Len(ResultTokens) >= k
            /\ k >= 1 =>
                  /\ ret.kind = "sentence"
                  /\ ret.words[1] = Capitalize(input_words[1])
                  /\ \A i \in 2..k : ret.words[i] = input_words[i]

\* generate_sentence was given more word tokens than max_words, with max_words
\* as the constructor set it, and returned the first max_words of them
C8_Witness ==
    /\ Generated
    /\ call.max_words = DefaultMaxWords
    /\ Len(WordTokens(call.text)) > call.max_words
    /\ ret.kind = "sentence"
    /\ Len(ret.words) = call.max_words

\* C9 as stated: the sentence generate_sentence returns has at most max_words
\* tokens.
C9_AtMostMaxWords ==
    Generated => Len(ResultTokens) <= call.max_words

\* k predictions not among the used words can be appended one after the other,
\* each compatible with the word it follows
RECURSIVE CanFill(_, _, _)
CanFill(last_word, used, k) ==
    \/ k <= 0
    \/ \E i \in 1..Len(call.predictions) :
          LET w == call.predictions[i].k IN
          /\ w \notin used
          /\ IsGrammaticallyCompatible(pre_db, grammar_rules, last_word, w)
          /\ CanFill(w, used \cup {w}, k - 1)

\* C10 as stated: generate_sentence returns a sentence of at least min_words
\* tokens whenever the ranked list holds enough distinct predictions, not already
\* in the sentence and each compatible with the word it would follow, to fill the
\* gap between the input length and min_words.
C10_ReachesMinWords ==
    (Generated /\ WordTokens(call.text) # <<>>) =>
        LET input_words == WordTokens(call.text) IN
        CanFill(input_words[Len(input_words)], Range(input_words),
                call.min_words - Len(input_words))
            => Len(ResultTokens) >= call.min_words

\* what generate_sentence returned ends in a question mark
EndsInQuestionMark ==
    IF ret.kind = "sentence" THEN ret.mark = "?"
    ELSE /\ ret.text # <<>>
         /\ LET last == ret.text[Len(ret.text)] IN last[Len(last)] = "?"

\* C11 as stated: when the input text's sentence type is question (one of its
\* words is a question word), whatever generate_sentence returns for it ends in
\* '?', whatever the predictions and the limits.
C11_QuestionEndsInMark ==
    (Generated /\ DetectSentenceType(WordTokens(call.text)) = "question")
        => EndsInQuestionMark

-----------------------------------------------------------------------------
(* Claims about word-class lookup *)

\* the lengths of the stored prefixes of w that have no shorter stored prefix
ShortestStoredPrefix(db, w) ==
    {i \in 1..Len(w) : InDb(db, Prefix(w, i)) /\ \A j \in 1..(i - 1) : ~InDb(db, Prefix(w, j))}

\* the tokens of a text that the ratio counts, and those of them that have an
\* exact match or a prefix in the store with a class other than unknown
CountedTokens(text) == SelectSeq(AllTokens(text), LAMBDA w : ~InPunctuation(w))

MatchedTokens(db, text) ==
    SelectSeq(CountedTokens(text),
              LAMBDA w : \E i \in ShortestStoredPrefix(db, w) :
                            (IF InDb(db, w) THEN DGet(db, w).class
                             ELSE DGet(db, Prefix(w, i)).class) # "unknown")

\* C12: the lookup of a word's class returns a class without raising and leaves
\* the store as it was; the class is that of the word's own entry when it has
\* one, otherwise that of the shortest prefix of the word that is a key of the
\* store, otherwise unknown. The known-word ratio counts every non-punctuation
\* token in its denominator and only the matched ones in its numerator.
C12_WordClassLookup ==
    /\ call.op = "get_word_class" =>
          LET w == call.word
              short == ShortestStoredPrefix(pre_db, w)
          IN  /\ word_db = pre_db
              /\ ret.kind = "class"
              /\ InDb(pre_db, w) => ret.class = DGet(pre_db, w).class
              /\ (~InDb(pre_db, w) /\ short # {}) =>
                    \A i \in short : ret.class = DGet(pre_db, Prefix(w, i)).class
              /\ short = {} => ret.class = "unknown"
    /\ call.op = "known_words_ratio" =>
          /\ word_db = pre_db
          /\ ret.kind = "ratio"
          /\ RMul(ret.ratio, <<Len(CountedTokens(call.text)), 1>>)
                = <<100 * Len(MatchedTokens(pre_db, call.text)), 1>>

\* a word was looked up that has no entry of its own and two stored prefixes of
\* different classes, and the class of the shorter one came back
C12_Witness ==
    /\ call.op = "get_word_class"
    /\ ~InDb(pre_db, call.word)
    /\ \E i, j \in 1..Len(call.word) :
          /\ i < j
          /\ InDb(pre_db, Prefix(call.word, i))
          /\ InDb(pre_db, Prefix(call.word, j))
          /\ DGet(pre_db, Prefix(call.word, i)).class # DGet(pre_db, Prefix(call.word, j)).class
          /\ ret.class = DGet(pre_db, Prefix(call.word, i)).class

-----------------------------------------------------------------------------
(* Claims about malformed records *)

\* the line just read has fewer than two fields, or a pattern-data field that
\* is not JSON
LastLineMalformed ==
    /\ ret.kind = "import"
    /\ \/ last_line.kind = "short"
       \/ last_line.kind = "record" /\ ~last_line.json_ok

\* C13 as stated: a malformed record is skipped silently: it adds no entry, the
\* records after it in the feed are still read, and when the import is over the
\* punctuation and digit pseudo-words are in the store.
C13_MalformedSkipped ==
    /\ LastLineMalformed =>
          /\ word_db = pre_db
          /\ word_relationships = pre_relationships
          /\ pc = "importing"
    /\ pc = "ready" =>
          \A i \in 1..Len(PunctuationChars \o DigitChars) :
              InDb(word_db, <<(PunctuationChars \o DigitChars)[i]>>)

-----------------------------------------------------------------------------
(* Claims about the word limits *)

\* C14 as stated: after construction and after any sequence of assignments to
\* min_words and max_words the limits satisfy 1 <= min_words <= max_words <= 100
\* (an out-of-order value moving the other limit).
C14_LimitsInOrder ==
    /\ 1 <= min_words
    /\ min_words <= max_words
    /\ max_words <= 100

-----------------------------------------------------------------------------
(* Claims about the grammar rules *)

\* set_mode to casual has loaded the rules from both files
CasualLoaded ==
    /\ call.op = "set_mode"
    /\ call.mode = "casual"
    /\ call.formal.present
    /\ call.casual.present

WeightSections == {"compatibility_rules", "flow_rules"}

\* the overlay file itself defines the entry of class c (for a weight: the
\* weight from c to c2) in section sec
OverlayDefines(sec, c) ==
    /\ sec \in DOMAIN call.casual.rules
    /\ c \in DOMAIN call.casual.rules[sec]

OverlayDefinesWeight(sec, c, c2) ==
    /\ OverlayDefines(sec, c)
    /\ c2 \in DOMAIN call.casual.rules[sec][c]

\* C15 as stated: in casual mode every formal entry that the overlay does not
\* itself define - a class's list in common_pairs, a template of sentence_order,
\* a class-to-class weight of compatibility_rules or flow_rules - is present in
\* the loaded rules with its formal value.
C15_OverlayMerged ==
    CasualLoaded =>
        LET formal == call.formal.rules IN
        \A sec \in DOMAIN formal : \A c \in DOMAIN formal[sec] :
            /\ sec \in DOMAIN grammar_rules
            /\ IF sec \in WeightSections
               THEN \A c2 \in DOMAIN formal[sec][c] :
                       ~OverlayDefinesWeight(sec, c, c2) =>
                           /\ c \in DOMAIN grammar_rules[sec]
                           /\ c2 \in DOMAIN grammar_rules[sec][c]
                           /\ grammar_rules[sec][c][c2] = formal[sec][c][c2]
               ELSE ~OverlayDefines(sec, c) =>
                       /\ c \in DOMAIN grammar_rules[sec]
                       /\ grammar_rules[sec][c] = formal[sec][c]

\* C16 as stated: loading the grammar rules raises when the formal file is
\* missing; when only the casual overlay is missing, set_mode to casual raises
\* nothing and the loaded rules are the formal rules.
C16_MissingOverlay ==
    call.op = "set_mode" =>
        /\ ~call.formal.present => ret.kind = "raised"
        /\ (call.formal.present /\ ~call.casual.present /\ call.mode = "casual") =>
              /\ ret.kind = "done"
              /\ grammar_rules = call.formal.rules

-----------------------------------------------------------------------------
(* Claims about training *)

ExpertFieldOf(db, i) == db[i].v.expert_field

\* C17: in every step of a session (set_mode, import_dictionary on a further
\* file, each training process) every entry of the store stays where it is,
\* and its expert_field either keeps its value or goes from "general" to a
\* field other than "general"; so it changes at most once and never back.
C17_ExpertFieldOnce ==
    [][\A i \in 1..Len(word_db) :
          /\ i <= Len(word_db')
          /\ word_db'[i].k = word_db[i].k
          /\ ExpertFieldOf(word_db', i) # ExpertFieldOf(word_db, i) =>
                /\ ExpertFieldOf(word_db, i) = "general"
                /\ ExpertFieldOf(word_db', i) # "general"]_vars

\* _bridge_experts has just given one entry its field and left another entry
\* with the field it had, although the deduction now names a different field
C17_Witness ==
    /\ call.op = "_bridge_experts"
    /\ \E i \in 1..Len(pre_db) :
          /\ ExpertFieldOf(pre_db, i) = "general"
          /\ ExpertFieldOf(word_db, i) # "general"
    /\ \E j \in 1..Len(pre_db) :
          /\ ExpertFieldOf(pre_db, j) # "general"
          /\ ExpertFieldOf(word_db, j) = ExpertFieldOf(pre_db, j)
          /\ DeduceExpertField(word_db, word_db[j].v) \notin {"general", ExpertFieldOf(pre_db, j)}

TrainingProcesses ==
    {"_bridge_synonyms", "_bridge_antonyms", "_bridge_experts", "_infer_unknown_word_classes"}

\* the meaning of an entry names a keyword of some expert field, so that
\* _bridge_experts gives the entry a field when it runs
NamesKeyword(meaning) ==
    \E i \in 1..Len(ExpertFields) : \E k \in ExpertFields[i].keywords : Contains(meaning, k)

\* C19 as stated: a training process never runs while the operation mode is
\* speech, and when set_mode has put the engine into file training or speech
\* training the processes have been applied to the store: every entry whose
\* meaning names a keyword of an expert field has been given a field.
C19_TrainingApplied ==
    /\ call.op \in TrainingProcesses => operation_mode # "speech"
    /\ (call.op = "set_mode" /\ ret.kind = "done"
           /\ operation_mode \in {"file_training", "speech_training"}) =>
          \A i \in 1..Len(word_db) :
              NamesKeyword(word_db[i].v.meaning) => ExpertFieldOf(word_db, i) # "general"

SynonymsOf(db, w) == IF InDb(db, w) THEN Range(DGet(db, w).synonyms) ELSE {}

\* the synonyms of the synonyms of w that are neither w nor synonyms of w
SubSynonyms(db, w) ==
    {t \in UNION {SynonymsOf(db, s) : s \in SynonymsOf(db, w)} :
        t # w /\ t \notin SynonymsOf(db, w)}

\* the pair (w, t) was added by the pass that has just run
NewlyAdded(w, t) == t \in SynonymsOf(word_db, w) \ SynonymsOf(pre_db, w)

NewPairs(w, t) ==
    (IF NewlyAdded(w, t) THEN 1 ELSE 0) + (IF NewlyAdded(t, w) THEN 1 ELSE 0)

\* every word the store or the graph names
NamedWords ==
    KeySet(word_db) \cup DOMAIN word_relationships
        \cup UNION {SynonymsOf(word_db, w) : w \in KeySet(word_db)}

\* C20 as stated: one call of _bridge_synonyms gives every word the synonyms
\* of its synonyms it did not list, and the weight between two words grows by
\* 2.0 in both directions for each newly added pair of them, whatever edge
\* they had; between other words no weight changes.
C20_BridgeAddsWeight ==
    call.op = "_bridge_synonyms" =>
        \A w \in NamedWords :
            /\ SubSynonyms(pre_db, w) \subseteq SynonymsOf(word_db, w)
            /\ \A t \in NamedWords :
                  Weight(word_relationships, w, t) =
                      RAdd(Weight(pre_relationships, w, t), <<2 * NewPairs(w, t), 1>>)

-----------------------------------------------------------------------------
(* Claims about the pattern index *)

\* every strength of the index d1 is in d2 with a value at least as large
IndexGrows(d1, d2) ==
    \A w \in DOMAIN d1 :
        /\ w \in DOMAIN d2
        /\ \A b \in DOMAIN d1[w] :
              /\ b \in DOMAIN d2[w]
              /\ \A i \in 1..Len(d1[w][b]) :
                    /\ DHas(d2[w][b], d1[w][b][i].k)
                    /\ RLe(d1[w][b][i].v, DGet(d2[w][b], d1[w][b][i].k))

\* C18: in every step of a session of analyze_patterns, predict_next,
\* enhanced_predict_next, generate_sentence and set_mode calls every word,
\* bucket (before, after, position) and strength of the pattern index is kept
\* and no strength gets smaller.
C18_IndexOnlyGrows == [][IndexGrows(pattern_relationships, pattern_relationships')]_vars

\* analyze_patterns has just added to a strength that was already positive,
\* and in casual mode with negative compatibility weights it has met a pair
\* whose strength it left as it was
C18_Witness ==
    /\ call.op = "analyze_patterns"
    /\ \E w \in DOMAIN pre_patterns : \E b \in DOMAIN pre_patterns[w] :
          \E i \in 1..Len(pre_patterns[w][b]) :
              /\ RPos(pre_patterns[w][b][i].v)
              /\ RLt(pre_patterns[w][b][i].v,
                     DGet(pattern_relationships[w][b], pre_patterns[w][b][i].k))
    /\ \E ws \in {AllTokens(call.text)} :
          /\ RLt(CalculatePatternRelationshipUnclamped(word_db, pre_relationships, grammar_rules,
                                                       ws[1], ws[2], ws, 1).val, Zero)
          /\ RPos(Strength(pre_patterns, ws[1], "after", ws[2]))
          /\ Strength(pattern_relationships, ws[1], "after", ws[2])
                = Strength(pre_patterns, ws[1], "after", ws[2])

-----------------------------------------------------------------------------
(* Claims about the closure of the bridging passes *)

\* the field the pass that has just run works on
BridgedField == IF call.op = "_bridge_synonyms" THEN "synonyms" ELSE "antonyms"

MembersOf(db, field, w) == IF InDb(db, w) THEN Range(DGet(db, w)[field]) ELSE {}

\* the members of w and the members of the members of w
OneHop(db, field, w) ==
    MembersOf(db, field, w)
        \cup UNION {MembersOf(db, field, s) : s \in MembersOf(db, field, w)}

\* no word lacks a member of one of its members
Closed(db, field) ==
    \A w \in KeySet(db) : OneHop(db, field, w) \ {w} \subseteq MembersOf(db, field, w)

\* C21 as stated: after one call of synonym or antonym bridging every word's
\* set holds only what it held before the call and what the sets of those
\* members held before the call; and a call on a store in which no word lacks
\* a member of a member changes no set and no weight.
C21_OneHopPerCall ==
    call.op \in {"_bridge_synonyms", "_bridge_antonyms"} =>
        /\ \A w \in KeySet(word_db) :
              MembersOf(word_db, BridgedField, w) \subseteq OneHop(pre_db, BridgedField, w)
        /\ Closed(pre_db, BridgedField) =>
              /\ word_db = pre_db
              /\ word_relationships = pre_relationships

-----------------------------------------------------------------------------
(* Claims about the inference of unknown classes *)

CandidateClasses == Range(TestClasses)

\* the class scores _infer_word_class_from_patterns collects for a word
ClassScores(db, pat, g, word) ==
    InferFromSynonyms(
        InferFromItems(
            InferFromItems(<<>>, db, Section(g, "compatibility_rules"),
                           Bucket(pat, word, "before")),
            db, Section(g, "compatibility_rules"), Bucket(pat, word, "after")),
        db, word, 1)

\* the candidate classes with a strictly positive score
PositiveCandidates(scores) ==
    {c \in CandidateClasses : DHas(scores, c) /\ RPos(DGet(scores, c))}

\* C22 as stated: the inference leaves every entry of a known class as it
\* was; an entry of class unknown keeps everything but its class, and its new
\* class is a candidate class (noun, verb, adjective, adverb) with a strictly
\* positive score that no candidate's score exceeds, or, when no candidate has
\* a positive score, still unknown.
C22_InferredClass ==
    call.op = "_infer_unknown_word_classes" =>
        \A i \in 1..Len(pre_db) :
            IF pre_db[i].v.class # "unknown" THEN word_db[i] = pre_db[i]
            ELSE LET scores == ClassScores(pre_db, pre_patterns, grammar_rules, pre_db[i].k)
                     new == word_db[i].v.class
                 IN  /\ word_db[i] = [pre_db[i] EXCEPT !.v.class = new]
                     /\ IF PositiveCandidates(scores) = {} THEN new = "unknown"
                        ELSE /\ new \in PositiveCandidates(scores)
                             /\ \A c \in PositiveCandidates(scores) :
                                   RLe(DGet(scores, c), DGet(scores, new))

-----------------------------------------------------------------------------
(* Claims about the enhancement layers *)

\* predict_next has returned its pair: the list the layers start from
BasePredicted == call.op = "predict_next" /\ ret.kind = "pair"

\* what the context layer makes of the list predict_next has returned
ContextLayer == GetContextualPredictions(word_db, word_relationships, call.text, ret.list)

TopicWeight(w) == Weight(word_relationships, MainTopic(word_db, call.text), w)

\* C23 as stated: the context layer gives every word of the list the score
\* score * (1 + 0.1 * graph_weight(main_topic, word)) when that weight is
\* positive, and the score it had when the weight is zero, negative or absent.
C23_ContextBoost ==
    BasePredicted =>
        \A i \in 1..Len(ret.list) :
            /\ DHas(ContextLayer, ret.list[i].k)
            /\ DGet(ContextLayer, ret.list[i].k) =
                  IF RPos(TopicWeight(ret.list[i].k))
                  THEN RMul(ret.list[i].v,
                            RAdd(<<1, 1>>, RMul(TopicWeight(ret.list[i].k), <<1, 10>>)))
                  ELSE ret.list[i].v

-----------------------------------------------------------------------------
(* Claims about the reads of prediction *)

\* C24 as stated: predict_next, in either mode, leaves the relationship
\* graph and the pattern index exactly as they were before the call: it
\* creates no key and changes no weight.
C24_PredictionReadsOnly ==
    call.op = "predict_next" =>
        /\ word_relationships = pre_relationships
        /\ pattern_relationships = pre_patterns

-----------------------------------------------------------------------------
(* Claims about the termination of a reply *)

\* the words of the ranked list
PredictedWords(predictions) == {predictions[i].k : i \in 1..Len(predictions)}

\* one iteration of the backfilling that stays in the loop appends exactly one
\* word: a prediction that is not yet in the sentence and is compatible with
\* the last word
FillAppendsNew ==
    pc = "backfilling" /\ pc' = "backfilling" =>
        /\ Len(ret'.words) = Len(ret.words) + 1
        /\ SubSeq(ret'.words, 1, Len(ret.words)) = ret.words
        /\ ret'.words[Len(ret'.words)] \in PredictedWords(call.predictions) \ Range(ret.words)
        /\ IsGrammaticallyCompatible(word_db, grammar_rules, ret.words[Len(ret.words)],
                                     ret'.words[Len(ret'.words)])
        /\ ret'.iterations = ret.iterations + 1

\* C25: generate_sentence always terminates. Every iteration of the
\* backfilling loop appends one prediction that is not yet in the sentence and
\* is compatible with the last word, or leaves the loop; the loop runs at most
\* as many iterations as there are predictions, and it is always left.
C25_BackfillTerminates ==
    /\ [][FillAppendsNew]_vars
    /\ [](pc = "backfilling" => ret.iterations <= Len(call.predictions))
    /\ (pc = "backfilling") ~> (pc = "padding")

\* the loop has appended two predictions and stops below min_words because no
\* further prediction is compatible with the last word
C25_Witness ==
    /\ pc = "backfilling"
    /\ ret.iterations >= 2
    /\ FillCondition(min_words, call.predictions, ret.words)
    /\ FillCandidates(word_db, grammar_rules, call.predictions, ret.words) = <<>>

\* C26: in speech mode every accepted message is processed to completion
\* before the next one is read: enhanced prediction, sentence generation and
\* the word-count post-processing (cut to max_words, pad to min_words from the
\* prediction list) terminate.
C26_ReplyCompletes == (pc # "ready") ~> (pc = "ready")

-----------------------------------------------------------------------------
(* Claims about the words a sentence is extended with *)

\* flow_rules[class(preceding)][class(appended)] > 0.3, where a class without
\* a flow rule and a class the rule does not name count as 0
FlowAbove(db, g, preceding, appended) ==
    LET rules == Section(g, "flow_rules")
        pclass == GetWordClass(db, preceding)
        aclass == GetWordClass(db, appended)
    IN  /\ pclass \in DOMAIN rules
        /\ aclass \in DOMAIN rules[pclass]
        /\ RLt(<<3, 10>>, rules[pclass][aclass])

\* C27: in the sentence generate_sentence builds, before the cut and the
\* finalizing, every word appended after the input tokens is a word of the
\* prediction list that was not in the sentence before it, and its class has a
\* flow weight above 0.3 after the class of the word before it; so no appended
\* word occurs twice and nothing follows a word whose class has no flow rule.
C27_AppendedWords ==
    pc = "backfilling" =>
        \A i \in (Len(WordTokens(call.text)) + 1)..Len(ret.words) :
            /\ ret.words[i] \in PredictedWords(call.predictions)
            /\ \A j \in 1..(i - 1) : ret.words[j] # ret.words[i]
            /\ FlowAbove(word_db, grammar_rules, ret.words[i - 1], ret.words[i])

\* in the casual mode with the overlay, the backfilling has appended a word
\* after a noun while a verb of the prediction list, at the weight 0.3 after
\* a noun, was passed over
C27_Witness ==
    /\ pc = "backfilling"
    /\ mode = "casual"
    /\ ret.iterations >= 1
    /\ Len(ret.words) > Len(WordTokens(call.text))
    /\ GetWordClass(word_db, ret.words[Len(ret.words) - 1]) = "noun"
    /\ \E i \in 1..Len(call.predictions) :
          /\ GetWordClass(word_db, call.predictions[i].k) = "verb"
          /\ call.predictions[i].k \notin Range(ret.words)

-----------------------------------------------------------------------------
(* Claims about the finalizing of a sentence *)

\* the first character in upper case, the rest as it is
FirstUpper(w) == <<UpperChar(w[1])>> \o Tail(w)

\* C28: generate_sentence returns the text it was given when the text has no
\* word token or no word is left after the cut; otherwise the first token of
\* the sentence is capitalized and the sentence ends in '?' when the sentence
\* type is question, else in '.' exactly when it has at least 3 tokens, else
\* it has no terminal punctuation.
C28_Finalizing ==
    call.op = "generate_sentence" =>
        LET input_words == WordTokens(call.text) IN
        IF input_words = <<>> \/ call.max_words = 0
        THEN ret = [kind |-> "text", text |-> call.text]
        ELSE /\ ret.kind = "sentence"
             /\ ret.words # <<>>
             /\ ret.words[1] = FirstUpper(input_words[1])
             /\ \A i \in 2..Len(ret.words) : ret.words[i] = ToLower(ret.words[i])
             /\ ret.mark = IF DetectSentenceType(input_words) = "question" THEN "?"
                           ELSE IF Len(ret.words) >= 3 THEN "." ELSE ""

\* a statement of three tokens that got its capital and its full stop
C28_Witness ==
    /\ call.op = "generate_sentence"
    /\ ret.kind = "sentence"
    /\ Len(ret.words) = 3
    /\ ret.words[1] = <<"A", "b">>
    /\ ret.mark = "."

-----------------------------------------------------------------------------
(* Claims about the sentence type *)

\* the sentence type generate_sentence works with: _detect_sentence_type over
\* its input_words, the word tokens of the text
GenerationSentenceType(text) == DetectSentenceType(WordTokens(text))

\* C29: the sentence type is one function of the text. The type that
\* generate_sentence uses for the template and the terminal punctuation is the
\* sentence_type analyze_patterns reports for the same text, also for a text
\* whose only question marker is the '?' of the question-word list.
C29_OneSentenceType ==
    call.op = "analyze_patterns" => ret.sentence_type = GenerationSentenceType(call.text)

-----------------------------------------------------------------------------
(* Claims about the enhancement pipeline *)

\* what predict_next returns for the text and mode of the call, from the state
\* the call started in
BaseOfCall ==
    PredictNextResult(pre_db, pre_relationships, pre_patterns, grammar_rules,
                      call.text, call.mode).ret

\* how many times a word occurs in a ranked list
Occurrences(list, w) == Cardinality({i \in 1..Len(list) : list[i].k = w})

\* the two lists hold the same words the same number of times
SameWords(a, b) ==
    /\ Len(a) = Len(b)
    /\ \A i \in 1..Len(a) : Occurrences(b, a[i].k) = Occurrences(a, a[i].k)
    /\ \A i \in 1..Len(b) : Occurrences(a, b[i].k) = Occurrences(b, b[i].k)

\* the scores do not increase along the list
NonIncreasing(list) == \A i \in 1..(Len(list) - 1) : RLe(list[i + 1].v, list[i].v)

\* C30: the enhancement pipeline only re-scores and re-orders. For every text
\* with at least one word token the list enhanced_predict_next returns holds
\* exactly the words predict_next returns for that text and mode (same length,
\* none added, dropped or duplicated), is in non-increasing score order, and
\* comes with the same known ratio.
C30_OnlyRescores ==
    (call.op = "enhanced_predict_next" /\ WordTokens(call.text) # <<>>) =>
        /\ ret.kind = "pair"
        /\ BaseOfCall.kind = "pair"
        /\ SameWords(ret.list, BaseOfCall.list)
        /\ \A i \in 1..Len(ret.list) : Occurrences(ret.list, ret.list[i].k) = 1
        /\ NonIncreasing(ret.list)
        /\ ret.ratio = BaseOfCall.ratio

\* the pipeline has changed scores and the order: a word stands at another
\* place than in the list predict_next returns
C30_Witness ==
    /\ call.op = "enhanced_predict_next"
    /\ WordTokens(call.text) # <<>>
    /\ ret.kind = "pair"
    /\ \E i \in 1..Len(ret.list) :
          /\ i <= Len(BaseOfCall.list)
          /\ ret.list[i].k # BaseOfCall.list[i].k
    /\ \E i \in 1..Len(ret.list) : \E j \in 1..Len(BaseOfCall.list) :
          /\ ret.list[i].k = BaseOfCall.list[j].k
          /\ ret.list[i].v # BaseOfCall.list[j].v

=============================================================================
